---- MODULE Spec2Model ----
(***************************************************************************)
(* State-machine model of the structured-logging pipeline of              *)
(* my-fastapi-project22.  The repository holds several independent        *)
(* implementations of the pipeline, one per source file; the variable     *)
(* impl names the one that is running:                                     *)
(*   "test_logger"        tests/test_logger.py        Logger               *)
(*   "logger_service"     src/services/logger_service.py                   *)
(*                        LoggerService, LoggerFactory                     *)
(*   "logger_repository"  src/repositories/logger_repository.py            *)
(*                        LogRepository, StructuredLogger                  *)
(*   "logger_router"      src/api/logger_router.py                         *)
(*                        StructuredLogger, LoggerService                  *)
(*   "models_logger"      src/models/logger.py                             *)
(*                        LogEntryCreate                                   *)
(* All of them sit on Python's logging module, whose per-name logger       *)
(* objects (level, handler list) are the variable loggers.                 *)
(***************************************************************************)
EXTENDS Integers, Sequences, FiniteSets, TLC

VARIABLES
    impl,        \* which implementation file is the running program
    loggers,     \* logging.getLogger registry: name -> [level, handlers]
    objs,        \* test_logger: the Logger objects constructed, obj -> [level]
    instances,   \* logger_service: LoggerFactory._instances, name -> id
    services,    \* logger_service: every LoggerService constructed, id -> [name, config]
    firstInst,   \* logger_service: history, name -> id returned by the first create_logger
    threads,     \* logger_service: position of each concurrent create_logger caller
    rows,        \* logger_repository: committed rows of table log_entries
    nextId,      \* logger_repository: next primary key the store assigns
    config,      \* logger_router: LoggerService.config [log_level, log_file]
    log_entries, \* logger_router: LoggerService.log_entries (in-memory list)
    nextUuid,    \* logger_router: stands for the next uuid4 drawn
    now,         \* the clock read by datetime.utcnow()
    resp,        \* the last call: its arguments, result and effects on the sinks
    sinks,       \* what each destination has received, in order, from emitting threads
    session      \* logger_repository: the Session's uncommitted changes

vars == <<impl, loggers, objs, instances, services, firstInst, threads, rows,
          nextId, config, log_entries, nextUuid, now, resp, sinks, session>>

----------------------------------------------------------------------------
(* Bounds of the model *)

MaxHandlers == 2
MaxObjs == 2
MaxServices == 3
MaxRows == 2
MaxTime == 1
MaxSkip == 2
MaxLimit == 2

----------------------------------------------------------------------------
(* Python's logging module, as the repository uses it *)

None == "None"

\* An absent time: start_time / end_time of LogQueryParams left out,
\* updated_at of a row never updated
NoTime == -1

\* logging.DEBUG .. logging.CRITICAL
LevelNames == {"DEBUG", "INFO", "WARNING", "ERROR", "CRITICAL"}

\* getattr(logging, level.upper())
LevelNo(name) ==
    CASE name = "DEBUG" -> 10
      [] name = "INFO" -> 20
      [] name = "WARNING" -> 30
      [] name = "ERROR" -> 40
      [] name = "CRITICAL" -> 50

LevelNos == {LevelNo(n) : n \in LevelNames}

NOTSET == 0

\* logging.getLogger(name) of a name not seen before: level NOTSET, no handlers
FreshLogger == [level |-> NOTSET, handlers |-> <<>>]

\* Logger.getEffectiveLevel: a NOTSET logger takes the root logger's WARNING
getEffectiveLevel(lg) == IF lg.level # NOTSET THEN lg.level ELSE LevelNo("WARNING")

\* Logger.isEnabledFor
isEnabledFor(lg, levelno) == levelno >= getEffectiveLevel(lg)

\* Handler.handle of one handler: StreamHandler.emit catches every exception
\* of format/write and hands it to Handler.handleError, which reports on
\* sys.stderr and returns.
handle(h, levelno, broken) ==
    IF levelno < h.level THEN "filtered"
    ELSE IF h.dest \in broken THEN "error"
    ELSE "write"

\* A mutated dispatch: the first failing handler aborts the loop, the
\* handlers after it are never called.
callHandlers_abort(handlers, levelno, broken) ==
    [i \in 1..Len(handlers) |->
        IF \E j \in 1..(i-1) : handle(handlers[j], levelno, broken) = "error"
        THEN "skipped"
        ELSE handle(handlers[i], levelno, broken)]

\* Logger.callHandlers: every handler of the logger in list order
callHandlers(handlers, levelno, broken) ==
    [i \in 1..Len(handlers) |-> handle(handlers[i], levelno, broken)]

\* A mutated emission: the record is handed to the handlers without the
\* logger's own level test.
LoggerLog_ungated(lg, levelno, broken) ==
    callHandlers(lg.handlers, levelno, broken)

\* Logger.log(level, msg): the outcome on each attached handler, in order
LoggerLog(lg, levelno, broken) ==
    IF isEnabledFor(lg, levelno)
    THEN callHandlers(lg.handlers, levelno, broken)
    ELSE [i \in 1..Len(lg.handlers) |-> "gated"]

\* handleError's reports on sys.stderr during one dispatch
Reports(outcome) == Cardinality({i \in DOMAIN outcome : outcome[i] = "error"})

Dests == {"console", "file"}

\* Logger.callHandlers with no handler found: logging.lastResort (a stderr
\* handler at WARNING) takes the record
LastResort(lg, levelno) ==
    isEnabledFor(lg, levelno) /\ Len(lg.handlers) = 0 /\ levelno >= LevelNo("WARNING")

NoResp == [op |-> "none"]

\* A Session with nothing pending: dirty holds the objects with attributes
\* set since the last commit, marked the ids given to session.delete, gone
\* the ids of objects whose deletion was committed
NoSession == [dirty |-> {}, marked |-> {}, gone |-> {}]

----------------------------------------------------------------------------
(* tests/test_logger.py: class Logger.  One logger name, "test_logger". *)

TestName == "test_logger"

Objs == 1..MaxObjs

\* Logger.__init__(name, level): takes the named logger and sets its level;
\* handlers already attached to that name stay attached (_setup_formatter
\* only gives them a formatter)
Logger_init(o, level) ==
    /\ impl = "test_logger"
    /\ o \notin DOMAIN objs
    /\ \A p \in Objs : p < o => p \in DOMAIN objs
    /\ objs' = objs @@ (o :> [level |-> LevelNo(level)])
    /\ loggers' = [loggers EXCEPT ![TestName].level = LevelNo(level)]
    /\ resp' = NoResp
    /\ UNCHANGED <<impl, session, sinks, instances, services, firstInst, threads, rows, nextId,
                   config, log_entries, nextUuid, now>>

\* self.level after set_level("BASIC_FORMAT"): getattr finds the attribute,
\* a format string that is no level
BasicFormat == -2

\* A mutated add_console_handler / add_file_handler: the handler keeps the
\* level it was made with, NOTSET, as if setLevel(self.level) were left out
Logger_add_handler_notset(o, dest) ==
    /\ impl = "test_logger"
    /\ o \in DOMAIN objs
    /\ Len(loggers[TestName].handlers) < MaxHandlers
    /\ loggers' = [loggers EXCEPT ![TestName].handlers =
                       Append(@, [dest |-> dest, level |-> NOTSET])]
    /\ resp' = NoResp
    /\ UNCHANGED <<impl, session, sinks, objs, instances, services, firstInst, threads, rows,
                   nextId, config, log_entries, nextUuid, now>>

\* add_console_handler / add_file_handler: a new handler at self.level is
\* appended to the named logger's handler list; handler.setLevel raises
\* before addHandler when self.level is no level
Logger_add_handler(o, dest) ==
    /\ impl = "test_logger"
    /\ o \in DOMAIN objs
    /\ Len(loggers[TestName].handlers) < MaxHandlers
    /\ loggers' = IF objs[o].level = BasicFormat THEN loggers
                  ELSE [loggers EXCEPT ![TestName].handlers =
                           Append(@, [dest |-> dest, level |-> objs[o].level])]
    /\ resp' = NoResp
    /\ UNCHANGED <<impl, session, sinks, objs, instances, services, firstInst, threads, rows,
                   nextId, config, log_entries, nextUuid, now>>

\* set_level: self.level, the named logger's level and the level of every
\* handler on the named logger
Logger_set_level(o, level) ==
    /\ impl = "test_logger"
    /\ o \in DOMAIN objs
    /\ objs' = [objs EXCEPT ![o].level = LevelNo(level)]
    /\ loggers' = [loggers EXCEPT ![TestName] =
                       [level |-> LevelNo(level),
                        handlers |-> [i \in 1..Len(@.handlers) |->
                                        [@.handlers[i] EXCEPT !.level = LevelNo(level)]]]]
    /\ resp' = NoResp
    /\ UNCHANGED <<impl, session, sinks, instances, services, firstInst, threads, rows, nextId,
                   config, log_entries, nextUuid, now>>

\* clear_handlers
Logger_clear_handlers(o) ==
    /\ impl = "test_logger"
    /\ o \in DOMAIN objs
    /\ loggers' = [loggers EXCEPT ![TestName].handlers = <<>>]
    /\ resp' = NoResp
    /\ UNCHANGED <<impl, session, sinks, objs, instances, services, firstInst, threads, rows,
                   nextId, config, log_entries, nextUuid, now>>

\* debug/info/warning/error/critical -> _log -> self.logger.log
Logger_log(o, level) ==
    /\ impl = "test_logger"
    /\ o \in DOMAIN objs
    /\ resp' = [op |-> "Logger._log", logger |-> TestName,
                levelno |-> LevelNo(level),
                outcome |-> LoggerLog(loggers[TestName], LevelNo(level), {}),
                lastResort |-> LastResort(loggers[TestName], LevelNo(level)),
                raised |-> None]
    /\ UNCHANGED <<impl, session, sinks, loggers, objs, instances, services, firstInst, threads,
                   rows, nextId, config, log_entries, nextUuid, now>>

NextTestLogger ==
    \/ \E o \in Objs, level \in LevelNames : Logger_init(o, level)
    \/ \E o \in Objs, dest \in Dests : Logger_add_handler(o, dest)
    \/ \E o \in Objs, level \in LevelNames : Logger_set_level(o, level)
    \/ \E o \in Objs : Logger_clear_handlers(o)
    \/ \E o \in Objs, level \in LevelNames : Logger_log(o, level)

----------------------------------------------------------------------------
(* src/services/logger_service.py: LoggerService and LoggerFactory *)

ServiceNames == {"app", "db"}

\* A config dict: level is AbsentLevel when the key is missing, file_path is
\* None when the key is missing or None
AbsentLevel == -1

Configs == [level : {AbsentLevel, LevelNo("DEBUG"), LevelNo("ERROR")},
            file_path : {None, "app.log"}]

\* self.config.get("level", logging.INFO)
ConfigLevel(cfg) == IF cfg.level = AbsentLevel THEN LevelNo("INFO") ELSE cfg.level

\* A handler as LoggerService / StructuredLogger attach it: level NOTSET
Handler(dest) == [dest |-> dest, level |-> NOTSET]

\* LoggerService._setup_logger: a logger that already has handlers is
\* returned as it is; otherwise level, console handler, optional file handler
_setup_logger(lg, cfg) ==
    IF lg.handlers # <<>> THEN lg
    ELSE [level |-> ConfigLevel(cfg),
          handlers |-> IF cfg.file_path # None
                       THEN <<Handler("console"), Handler("file")>>
                       ELSE <<Handler("console")>>]

\* A mutated registry test: the name is never found, every call constructs.
Registered_never(inst, name) == FALSE

\* LoggerFactory.create_logger: `name not in cls._instances`, negated
Registered(inst, name) == name \in DOMAIN inst

\* cls._instances[name] = value
SetItem(inst, name, id) ==
    [n \in DOMAIN inst \cup {name} |-> IF n = name THEN id ELSE inst[n]]

\* The history of first calls: name -> [id, config] of the first create_logger
NoteFirst(first, name, id, cfg) ==
    IF name \in DOMAIN first THEN first
    ELSE first @@ (name :> [id |-> id, config |-> cfg])

\* LoggerFactory.create_logger(name, config), one caller at a time
LoggerFactory_create_logger(name, cfg) ==
    /\ impl = "logger_service"
    /\ threads = <<>>
    /\ IF ~Registered(instances, name)
       THEN /\ Len(services) < MaxServices
            /\ services' = Append(services, [name |-> name, config |-> cfg])
            /\ loggers' = [loggers EXCEPT ![name] = _setup_logger(@, cfg)]
            /\ instances' = SetItem(instances, name, Len(services) + 1)
       ELSE UNCHANGED <<services, loggers, instances>>
    /\ resp' = [op |-> "create_logger", name |-> name, config |-> cfg,
                result |-> instances'[name]]
    /\ firstInst' = NoteFirst(firstInst, name, instances'[name], cfg)
    /\ UNCHANGED <<impl, session, sinks, objs, threads, rows, nextId, config, log_entries,
                   nextUuid, now>>

\* LoggerFactory.get_logger(name): the instance, or None (0)
LoggerFactory_get_logger(name) ==
    /\ impl = "logger_service"
    /\ threads = <<>>
    /\ resp' = [op |-> "get_logger", name |-> name,
                result |-> IF name \in DOMAIN instances THEN instances[name] ELSE 0]
    /\ UNCHANGED <<impl, session, sinks, loggers, objs, instances, services, firstInst, threads,
                   rows, nextId, config, log_entries, nextUuid, now>>

\* LoggerService.debug .. critical -> _log_with_extra -> self._logger.log;
\* broken is the set of destinations whose write fails
LoggerService_log_with_extra(id, level, broken) ==
    /\ impl = "logger_service"
    /\ threads = <<>>
    /\ id \in DOMAIN services
    /\ LET lg == loggers[services[id].name] IN
       resp' = [op |-> "LoggerService._log_with_extra",
                logger |-> services[id].name, levelno |-> LevelNo(level),
                broken |-> broken,
                outcome |-> LoggerLog(lg, LevelNo(level), broken),
                lastResort |-> FALSE, raised |-> None]
    /\ UNCHANGED <<impl, session, sinks, loggers, objs, instances, services, firstInst, threads,
                   rows, nextId, config, log_entries, nextUuid, now>>

NextLoggerService ==
    \/ \E name \in ServiceNames, cfg \in Configs : LoggerFactory_create_logger(name, cfg)
    \/ \E name \in ServiceNames : LoggerFactory_get_logger(name)
    \/ \E id \in 1..MaxServices, level \in LevelNames, broken \in SUBSET Dests :
          LoggerService_log_with_extra(id, level, broken)

----------------------------------------------------------------------------
(* LoggerFactory.create_logger called from concurrent threads: the steps   *)
(* between which the interpreter may switch threads                        *)

MaxThreads == 2

Threads == 1..MaxThreads

IdleThread == [pc |-> "idle", name |-> None, config |-> CHOOSE c \in Configs : TRUE,
               mine |-> 0, result |-> 0]

\* A caller enters create_logger(name, config)
T_call(t, name, cfg) ==
    /\ threads[t].pc = "idle"
    /\ threads' = [threads EXCEPT ![t] = [IdleThread EXCEPT !.pc = "check",
                                          !.name = name, !.config = cfg]]
    /\ UNCHANGED <<impl, session, sinks, loggers, objs, instances, services, firstInst, rows,
                   nextId, config, log_entries, nextUuid, now, resp>>

\* if name not in cls._instances
T_check(t) ==
    /\ threads[t].pc = "check"
    /\ threads' = [threads EXCEPT ![t].pc =
                       IF Registered(instances, threads[t].name)
                       THEN "return" ELSE "construct"]
    /\ UNCHANGED <<impl, session, sinks, loggers, objs, instances, services, firstInst, rows,
                   nextId, config, log_entries, nextUuid, now, resp>>

\* LoggerService(name, config), the right-hand side of the assignment
T_construct(t) ==
    /\ threads[t].pc = "construct"
    /\ Len(services) < MaxServices
    /\ services' = Append(services, [name |-> threads[t].name,
                                      config |-> threads[t].config])
    /\ loggers' = [loggers EXCEPT ![threads[t].name] =
                       _setup_logger(@, threads[t].config)]
    /\ threads' = [threads EXCEPT ![t].pc = "store", ![t].mine = Len(services) + 1]
    /\ UNCHANGED <<impl, session, sinks, objs, instances, firstInst, rows, nextId, config,
                   log_entries, nextUuid, now, resp>>

\* cls._instances[name] = <the instance constructed>
T_store(t) ==
    /\ threads[t].pc = "store"
    /\ instances' = SetItem(instances, threads[t].name, threads[t].mine)
    /\ threads' = [threads EXCEPT ![t].pc = "return"]
    /\ UNCHANGED <<impl, session, sinks, loggers, objs, services, firstInst, rows, nextId,
                   config, log_entries, nextUuid, now, resp>>

\* return cls._instances[name]
T_return(t) ==
    /\ threads[t].pc = "return"
    /\ threads' = [threads EXCEPT ![t].pc = "done",
                                  ![t].result = instances[threads[t].name]]
    /\ UNCHANGED <<impl, session, sinks, loggers, objs, instances, services, firstInst, rows,
                   nextId, config, log_entries, nextUuid, now, resp>>

NextConc ==
    \/ \E t \in Threads, name \in ServiceNames, cfg \in Configs : T_call(t, name, cfg)
    \/ \E t \in Threads : T_check(t)
    \/ \E t \in Threads : T_construct(t)
    \/ \E t \in Threads : T_store(t)
    \/ \E t \in Threads : T_return(t)

----------------------------------------------------------------------------
(* src/repositories/logger_repository.py: LogRepository, StructuredLogger *)

RepoName == "repo"

StoreLevels == {"INFO", "ERROR"}

Messages == {"boom", "ok"}

\* Python values of extra_data: None, a dict (its items), a JSON string
PyNone == [t |-> "None", v |-> {}]

PyDict(items) == [t |-> "dict", v |-> items]

PyStr(items) == [t |-> "str", v |-> items]

Extras == {PyNone, PyDict({}), PyDict({<<"code", "500">>})}

\* Python truthiness of an Optional[Dict]: None and {} are false
Truthy(x) == x.t # "None" /\ x.v # {}

\* json.dumps of a dict: the JSON text of its items
JsonDumps(d) == PyStr(d.v)

\* What a reader of the row does with extra_data: json.loads of the text,
\* None for a null column
JsonLoads(x) == IF x.t = "str" THEN PyDict(x.v) ELSE PyNone

\* The entry drafts the callers submit
Drafts ==
    {[level |-> "INFO", message |-> "ok", extra_data |-> PyNone],
     [level |-> "INFO", message |-> "boom", extra_data |-> PyDict({<<"code", "500">>})],
     [level |-> "ERROR", message |-> "ok", extra_data |-> PyDict({})],
     [level |-> "ERROR", message |-> "boom", extra_data |-> PyDict({<<"code", "500">>})]}

NoRow == [id |-> 0, timestamp |-> 0, level |-> None, message |-> None,
          extra_data |-> PyNone, updated_at |-> NoTime]

\* LogRepository.create: extra_data_json
StoredExtra(extra) == IF Truthy(extra) THEN JsonDumps(extra) ELSE PyNone

\* LogRepository.create: db_log = LogEntry(...), with the id the store
\* assigns at commit and timestamp = datetime.utcnow()
NewRow(id, ts, draft) ==
    [id |-> id, timestamp |-> ts, level |-> draft.level,
     message |-> draft.message, extra_data |-> StoredExtra(draft.extra_data),
     updated_at |-> NoTime]

\* The points of create at which the storage layer can fail
CreateFaults == {"none", "commit", "refresh"}

\* LogRepository.create(log_entry) against committed rows rws: the committed
\* rows after the call, what it raises and what it returns.  A failing commit
\* is rolled back; session.refresh runs after the commit, so its failure
\* finds the row committed, and the rollback in the except clause undoes
\* nothing.
create(rws, id, ts, draft, fault) ==
    CASE fault = "commit" ->
            [rows |-> rws, raised |-> "RuntimeError", result |-> NoRow]
      [] fault = "refresh" ->
            [rows |-> rws \cup {NewRow(id, ts, draft)}, raised |-> "RuntimeError",
             result |-> NoRow]
      [] OTHER ->
            [rows |-> rws \cup {NewRow(id, ts, draft)}, raised |-> None,
             result |-> NewRow(id, ts, draft)]

\* LogRepository.create called directly
LogRepository_create(draft, fault) ==
    /\ impl = "logger_repository"
    /\ nextId <= MaxRows
    /\ LET r == create(rows, nextId, now, draft, fault) IN
       /\ rows' = r.rows
       /\ nextId' = IF r.rows = rows THEN nextId ELSE nextId + 1
       /\ resp' = [op |-> "LogRepository.create", draft |-> draft, fault |-> fault,
                   raised |-> r.raised, result |-> r.result]
    /\ UNCHANGED <<impl, session, sinks, loggers, objs, instances, services, firstInst, threads,
                   config, log_entries, nextUuid, now>>

\* LogRepository.get_by_id
LogRepository_get_by_id(id) ==
    /\ impl = "logger_repository"
    /\ resp' = [op |-> "LogRepository.get_by_id", id |-> id,
                result |-> IF \E r \in rows : r.id = id
                           THEN CHOOSE r \in rows : r.id = id ELSE NoRow]
    /\ UNCHANGED <<impl, session, sinks, loggers, objs, instances, services, firstInst, threads,
                   rows, nextId, config, log_entries, nextUuid, now>>

\* The set of a sequence's elements
Range(f) == {f[i] : i \in DOMAIN f}

\* ORDER BY timestamp DESC: the orders in which the store may return the
\* rows of S (rows of equal timestamp come in any order)
OrderByTimestampDesc(S) ==
    {f \in [1..Cardinality(S) -> S] :
        /\ Range(f) = S
        /\ \A i, j \in DOMAIN f : i < j => f[i].timestamp >= f[j].timestamp}

\* A mutated pagination: the window is one entry short.
Page_short(f, skip, limit) ==
    [i \in 1..(IF Len(f) - skip < limit - 1
               THEN (IF Len(f) - skip < 0 THEN 0 ELSE Len(f) - skip)
               ELSE limit - 1) |-> f[skip + i]]

\* OFFSET skip LIMIT limit, and the slice entries[skip : skip + limit]
Page(f, skip, limit) ==
    [i \in 1..(IF Len(f) - skip < limit
               THEN (IF Len(f) - skip < 0 THEN 0 ELSE Len(f) - skip)
               ELSE limit) |-> f[skip + i]]

\* The level filter of a query; None is get_all, which has no WHERE clause
Levels(level) == IF level = None THEN StoreLevels ELSE {level}

\* LogRepository.get_all(skip, limit) (level None) and
\* LogRepository.get_by_level(level, skip, limit): WHERE, ORDER BY, OFFSET, LIMIT
LogRepository_list(level, skip, limit) ==
    /\ impl = "logger_repository"
    /\ \E f \in OrderByTimestampDesc({r \in rows : r.level \in Levels(level)}) :
          resp' = [op |-> "LogRepository.list", level |-> level, start_time |-> -1,
                   end_time |-> -1, skip |-> skip, limit |-> limit,
                   result |-> Page(f, skip, limit)]
    /\ UNCHANGED <<impl, session, sinks, loggers, objs, instances, services, firstInst, threads,
                   rows, nextId, config, log_entries, nextUuid, now>>

\* StructuredLogger.__init__ -> _configure_logger: a logger without handlers
\* gets a console handler and level DEBUG
_configure_logger(lg) ==
    IF lg.handlers = <<>>
    THEN [level |-> LevelNo("DEBUG"), handlers |-> <<Handler("console")>>]
    ELSE lg

\* LoggerService.get_logger(name) -> StructuredLogger(name, repository)
StructuredLogger_init ==
    /\ impl = "logger_repository"
    /\ loggers' = [loggers EXCEPT ![RepoName] = _configure_logger(@)]
    /\ resp' = NoResp
    /\ UNCHANGED <<impl, session, sinks, objs, instances, services, firstInst, threads, rows,
                   nextId, config, log_entries, nextUuid, now>>

\* StructuredLogger.debug .. critical: self.logger.<level>(message), then
\* _log_to_db(level, message, extra_data) whatever the logger's level.
\* _log_to_db catches every exception of create and reports it with
\* self.logger.error, the Python logger, which does not persist.
StructuredLogger_emit(level, message, extra, fault) ==
    /\ impl = "logger_repository"
    /\ loggers[RepoName].handlers # <<>>
    /\ nextId <= MaxRows
    /\ LET lg == loggers[RepoName]
           r == create(rows, nextId, now,
                       [level |-> level, message |-> message, extra_data |-> extra],
                       fault)
       IN
       /\ rows' = r.rows
       /\ nextId' = IF r.rows = rows THEN nextId ELSE nextId + 1
       /\ resp' = [op |-> "StructuredLogger.emit", logger |-> RepoName,
                   levelno |-> LevelNo(level), fault |-> fault,
                   outcome |-> LoggerLog(lg, LevelNo(level), {}),
                   creates |-> 1,
                   reported |-> IF r.raised # None
                                THEN LoggerLog(lg, LevelNo("ERROR"), {})
                                ELSE <<>>,
                   raised |-> None]
    /\ UNCHANGED <<impl, session, sinks, loggers, objs, instances, services, firstInst, threads,
                   config, log_entries, nextUuid, now>>

\* Time passes between two calls
Tick ==
    /\ impl \in {"logger_repository", "logger_router"}
    /\ now < MaxTime
    /\ now' = now + 1
    /\ UNCHANGED <<impl, session, sinks, loggers, objs, instances, services, firstInst, threads,
                   rows, nextId, config, log_entries, nextUuid, resp>>

\* The calls of the repository implementation that write
NextRepositoryWrite ==
    \/ \E draft \in Drafts, fault \in CreateFaults : LogRepository_create(draft, fault)
    \/ StructuredLogger_init
    \/ \E d \in Drafts, fault \in CreateFaults :
          StructuredLogger_emit(d.level, d.message, d.extra_data, fault)
    \/ Tick

\* The calls of the repository implementation that only read
NextRepositoryRead ==
    \/ \E id \in 1..MaxRows : LogRepository_get_by_id(id)
    \/ \E level \in StoreLevels \cup {None}, skip \in 0..MaxSkip, limit \in 1..MaxLimit :
          LogRepository_list(level, skip, limit)

----------------------------------------------------------------------------
(* src/api/logger_router.py: StructuredLogger, LoggerConfig, LoggerService *)

\* LoggerConfig.app_name
RouterName == "fastapi-app"

\* A mutated test of log_file: `if log_file is not None`, the empty string
\* passes.
FileTruthy_notnone(f) == f # None

\* `if log_file:` -- None and the empty string are false
FileTruthy(f) == f # None /\ f # ""

\* StructuredLogger.__init__(name, level, log_file): sets the level, clears
\* the handlers, adds the console handler and, for a log_file, the file
\* handler; logging.FileHandler raises when the file cannot be opened, and
\* the logger is left with the console handler alone
StructuredLogger_new(level, log_file, openFails) ==
    [level |-> LevelNo(level),
     handlers |-> IF FileTruthy(log_file) /\ ~openFails
                  THEN <<Handler("console"), Handler("file")>>
                  ELSE <<Handler("console")>>]

\* LoggerService.get_logger_config
get_logger_config(cfg, lg) ==
    [logger_name |-> RouterName, log_level |-> cfg.log_level,
     log_file |-> cfg.log_file, handlers_count |-> Len(lg.handlers)]

NoConfigResponse ==
    [logger_name |-> None, log_level |-> None, log_file |-> None, handlers_count |-> 0]

\* LoggerService.__init__(config), as get_logger_service runs it: a new
\* StructuredLogger for config.app_name and an empty log_entries list.  When
\* the file cannot be opened the constructor raises and no service is made.
LoggerService_init(openFails) ==
    /\ impl = "logger_router"
    /\ loggers' = [loggers EXCEPT ![RouterName] =
                       StructuredLogger_new(config.log_level, config.log_file, openFails)]
    /\ IF FileTruthy(config.log_file) /\ openFails
       THEN /\ resp' = [op |-> "LoggerService.__init__", raised |-> "OSError"]
            /\ UNCHANGED log_entries
       ELSE /\ resp' = [op |-> "LoggerService.__init__", raised |-> None]
            /\ log_entries' = <<>>
    /\ UNCHANGED <<impl, session, sinks, objs, instances, services, firstInst, threads, rows,
                   nextId, config, nextUuid, now>>

\* A mutated update_logger_config: the new StructuredLogger adds its
\* handlers to those the logger has, as if handlers.clear() were left out.
update_logger_config_appends(cfg, lg, updLevel, updFile, openFails) ==
    LET level == IF updLevel # None THEN updLevel ELSE cfg.log_level
        file == IF updFile # None THEN updFile ELSE cfg.log_file
        new == IF updFile # None
               THEN [level |-> LevelNo(level),
                     handlers |-> lg.handlers
                        \o StructuredLogger_new(level, updFile, openFails).handlers]
               ELSE [lg EXCEPT !.level = LevelNo(level)]
        fails == updFile # None /\ FileTruthy(updFile) /\ openFails
    IN  [config |-> [log_level |-> level, log_file |-> file], logger |-> new,
         raised |-> IF fails THEN "OSError" ELSE None,
         result |-> IF fails THEN NoConfigResponse
                    ELSE get_logger_config([log_level |-> level, log_file |-> file], new)]

\* update_logger_config(config_update) on config cfg and logger lg: updLevel
\* and updFile are None when the field is not given.  The config and the
\* logger after the call, what it raises and what it returns.
update_logger_config(cfg, lg, updLevel, updFile, openFails) ==
    LET level == IF updLevel # None THEN updLevel ELSE cfg.log_level
        file == IF updFile # None THEN updFile ELSE cfg.log_file
        new == IF updFile # None
               THEN StructuredLogger_new(level, updFile, openFails)
               ELSE [lg EXCEPT !.level = LevelNo(level)]
        fails == updFile # None /\ FileTruthy(updFile) /\ openFails
    IN  [config |-> [log_level |-> level, log_file |-> file], logger |-> new,
         raised |-> IF fails THEN "OSError" ELSE None,
         result |-> IF fails THEN NoConfigResponse
                    ELSE get_logger_config([log_level |-> level, log_file |-> file], new)]

\* LoggerService.update_logger_config(config_update)
LoggerService_update_logger_config(updLevel, updFile, openFails) ==
    /\ impl = "logger_router"
    /\ LET r == update_logger_config(config, loggers[RouterName], updLevel, updFile,
                                     openFails)
       IN
       /\ config' = r.config
       /\ loggers' = [loggers EXCEPT ![RouterName] = r.logger]
       /\ resp' = [op |-> "LoggerService.update_logger_config",
                   log_level |-> updLevel, log_file |-> updFile,
                   raised |-> r.raised, result |-> r.result]
    /\ UNCHANGED <<impl, session, sinks, objs, instances, services, firstInst, threads, rows,
                   nextId, log_entries, nextUuid, now>>

\* LoggerService.create_log_entry(log_data): logs through
\* StructuredLogger.log, then appends the entry to log_entries whatever the
\* logger's level
LoggerService_create_log_entry(draft) ==
    /\ impl = "logger_router"
    /\ nextUuid <= MaxRows
    /\ LET entry == [id |-> nextUuid, timestamp |-> now, level |-> draft.level,
                     message |-> draft.message, extra_data |-> draft.extra_data]
       IN
       /\ log_entries' = Append(log_entries, entry)
       /\ resp' = [op |-> "LoggerService.create_log_entry", logger |-> RouterName,
                   levelno |-> LevelNo(draft.level),
                   outcome |-> LoggerLog(loggers[RouterName], LevelNo(draft.level), {}),
                   lastResort |-> FALSE, raised |-> None, result |-> entry]
    /\ nextUuid' = nextUuid + 1
    /\ UNCHANGED <<impl, session, sinks, loggers, objs, instances, services, firstInst, threads,
                   rows, nextId, config, now>>

\* A mutated filter: the start_time bound is exclusive.
Matches_exclusive(e, level, start_time, end_time) ==
    /\ level # None => e.level = level
    /\ start_time # NoTime => e.timestamp > start_time
    /\ end_time # NoTime => e.timestamp <= end_time

\* LoggerService.get_log_entries: the three filters, each applied only when
\* its query parameter is given
Matches(e, level, start_time, end_time) ==
    /\ level # None => e.level = level
    /\ start_time # NoTime => e.timestamp >= start_time
    /\ end_time # NoTime => e.timestamp <= end_time

\* [e for e in entries if ...]
Filter(entries, level, start_time, end_time) ==
    SelectSeq(entries, LAMBDA e : Matches(e, level, start_time, end_time))

\* LoggerService.get_log_entries(query_params)
LoggerService_get_log_entries(level, start_time, end_time, offset, limit) ==
    /\ impl = "logger_router"
    /\ resp' = [op |-> "LoggerService.get_log_entries", level |-> level,
                start_time |-> start_time, end_time |-> end_time,
                skip |-> offset, limit |-> limit,
                result |-> Page(Filter(log_entries, level, start_time, end_time),
                                offset, limit)]
    /\ UNCHANGED <<impl, session, sinks, loggers, objs, instances, services, firstInst, threads,
                   rows, nextId, config, log_entries, nextUuid, now>>

\* The start_time / end_time values the queries carry
StartTimes == {NoTime, 1}

EndTimes == {NoTime, 0}

\* The calls of the router implementation that write
NextRouterWrite ==
    \/ \E openFails \in BOOLEAN : LoggerService_init(openFails)
    \/ \E updLevel \in StoreLevels \cup {None}, updFile \in {None, "", "app.log"},
          openFails \in BOOLEAN :
          LoggerService_update_logger_config(updLevel, updFile, openFails)
    \/ \E draft \in Drafts : LoggerService_create_log_entry(draft)
    \/ Tick

\* The calls of the router implementation that only read
NextRouterRead ==
    \E level \in StoreLevels \cup {None}, start_time \in StartTimes,
       end_time \in EndTimes, offset \in 0..MaxSkip, limit \in 1..MaxLimit :
       LoggerService_get_log_entries(level, start_time, end_time, offset, limit)

----------------------------------------------------------------------------
(* Specifications *)

LoggerNames == {TestName, RepoName, RouterName} \cup ServiceNames

\* The process at start, running one of the implementations I, with the
\* threads th calling LoggerFactory.create_logger
InitOf(I, th) ==
    /\ impl \in I
    /\ loggers = [n \in LoggerNames |->
                     IF n = RouterName /\ impl = "logger_router"
                     THEN StructuredLogger_new("INFO", None, FALSE)
                     ELSE FreshLogger]
    /\ objs = <<>>
    /\ instances = <<>>
    /\ services = <<>>
    /\ firstInst = <<>>
    /\ threads = th
    /\ rows = {}
    /\ nextId = 1
    /\ config = [log_level |-> "INFO", log_file |-> None]
    /\ log_entries = <<>>
    /\ nextUuid = 1
    /\ now = 0
    /\ resp = NoResp
    /\ sinks = [d \in Dests |-> <<>>]
    /\ session = NoSession

Init ==
    InitOf({"test_logger", "logger_service", "logger_repository", "logger_router"}, <<>>)

Next ==
    \/ NextTestLogger
    \/ NextLoggerService
    \/ NextRepositoryWrite
    \/ NextRepositoryRead
    \/ NextRouterWrite
    \/ NextRouterRead

\* Every implementation, every call, one caller at a time
Spec == Init /\ [][Next]_vars

\* LoggerFactory and LoggerService of logger_service.py, one caller at a time
InitService == InitOf({"logger_service"}, <<>>)

SpecService == InitService /\ [][NextLoggerService]_vars

\* LoggerFactory.create_logger called by MaxThreads threads
InitConc == InitOf({"logger_service"}, [t \in Threads |-> IdleThread])

SpecConc == InitConc /\ [][NextConc]_vars

\* LogRepository and StructuredLogger of logger_repository.py
InitRepository == InitOf({"logger_repository"}, <<>>)

NextRepository == NextRepositoryWrite \/ NextRepositoryRead

SpecRepository == InitRepository /\ [][NextRepository]_vars

\* The emission paths that have a level gate: Logger of test_logger.py and
\* StructuredLogger of logger_router.py
InitLevelGate == InitOf({"test_logger", "logger_router"}, <<>>)

NextLevelGate == NextTestLogger \/ NextRouterWrite

SpecLevelGate == InitLevelGate /\ [][NextLevelGate]_vars

\* The emission paths that persist: StructuredLogger of logger_repository.py
\* and LoggerService of logger_router.py
InitPersist == InitOf({"logger_repository", "logger_router"}, <<>>)

NextPersist == NextRepositoryWrite \/ NextRouterWrite

SpecPersist == InitPersist /\ [][NextPersist]_vars

\* The stores and their list queries: entries are created, time passes,
\* the store is listed
InitQuery == InitOf({"logger_repository", "logger_router"}, <<>>)

NextQuery ==
    \/ \E draft \in Drafts : LogRepository_create(draft, "none")
    \/ \E level \in StoreLevels \cup {None}, skip \in 0..MaxSkip, limit \in 1..MaxLimit :
          LogRepository_list(level, skip, limit)
    \/ \E draft \in Drafts : LoggerService_create_log_entry(draft)
    \/ NextRouterRead
    \/ Tick

SpecQuery == InitQuery /\ [][NextQuery]_vars

----------------------------------------------------------------------------
(* Pagination arguments outside their range *)

\* limit: int = Field(100, ge=1, le=1000): the largest limit accepted
LimitMax == 1000

\* The skip / offset values and the limit values a caller may pass, in range
\* and out of range
RawSkips == {-1, 0, 1}

RawLimits == {0, 1, LimitMax, LimitMax + 1}

\* LogQueryParams(limit=..., offset=...): limit ge=1, le=1000, offset ge=0
ValidQuery(offset, limit) == offset >= 0 /\ limit >= 1 /\ limit <= LimitMax

\* What the store's engine does with OFFSET skip: a negative OFFSET is taken
\* as 0 by SQLite and rejected by PostgreSQL (SQLAlchemyError, which get_all
\* and get_by_level turn into RuntimeError)
EngineOutcomes(skip) == IF skip < 0 THEN {"offset 0", "rejected"} ELSE {"executed"}

\* LoggerService.get_logs(skip, limit) (level None) and
\* LoggerService.get_logs_by_level(level, skip, limit) of
\* logger_repository.py: the arguments go to LogRepository.get_all /
\* get_by_level as they are, and from there into the statement
LoggerService_get_logs(level, skip, limit) ==
    /\ impl = "logger_repository"
    /\ \E f \in OrderByTimestampDesc({r \in rows : r.level \in Levels(level)}),
          outcome \in EngineOutcomes(skip) :
          resp' = [op |-> "LoggerService.get_logs", level |-> level,
                   skip |-> skip, limit |-> limit,
                   raised |-> IF outcome = "rejected" THEN "RuntimeError" ELSE None,
                   result |-> IF outcome = "rejected" THEN <<>>
                              ELSE Page(f, IF skip < 0 THEN 0 ELSE skip, limit)]
    /\ UNCHANGED <<impl, session, sinks, loggers, objs, instances, services, firstInst, threads,
                   rows, nextId, config, log_entries, nextUuid, now>>

\* A query built through LogQueryParams and handed to
\* LoggerService.get_log_entries of logger_router.py: an argument out of
\* range raises ValidationError before get_log_entries is called
LogQueryParams_get_log_entries(level, offset, limit) ==
    /\ impl = "logger_router"
    /\ resp' = [op |-> "LogQueryParams", level |-> level,
                skip |-> offset, limit |-> limit,
                raised |-> IF ValidQuery(offset, limit) THEN None ELSE "ValidationError",
                result |-> IF ValidQuery(offset, limit)
                           THEN Page(Filter(log_entries, level, NoTime, NoTime),
                                     offset, limit)
                           ELSE <<>>]
    /\ UNCHANGED <<impl, session, sinks, loggers, objs, instances, services, firstInst, threads,
                   rows, nextId, config, log_entries, nextUuid, now>>

\* Both stores, listed with arguments in and out of range
InitPaging == InitOf({"logger_repository", "logger_router"}, <<>>)

NextPaging ==
    \/ \E draft \in Drafts : LogRepository_create(draft, "none")
    \/ \E draft \in Drafts : LoggerService_create_log_entry(draft)
    \/ \E level \in StoreLevels \cup {None}, skip \in RawSkips, limit \in RawLimits :
          LoggerService_get_logs(level, skip, limit)
    \/ \E level \in StoreLevels \cup {None}, offset \in RawSkips, limit \in RawLimits :
          LogQueryParams_get_log_entries(level, offset, limit)

SpecPaging == InitPaging /\ [][NextPaging]_vars

----------------------------------------------------------------------------
(* src/repositories/logger_repository.py: LogRepository.update and delete, *)
(* src/api/logger_router.py: LoggerService.get_log_entry                   *)

\* LogEntryUpdate: fields names the fields the caller set (exclude_unset
\* keeps exactly those), the other fields carry their default None
Patch(fields, level, message, extra_data) ==
    [fields |-> fields, level |-> level, message |-> message,
     extra_data |-> extra_data]

\* The patches the callers submit
Patches ==
    {Patch({}, None, None, PyNone),
     Patch({"message"}, None, "new", PyNone),
     Patch({"level", "message"}, "ERROR", "new", PyNone),
     Patch({"extra_data"}, None, None, PyDict({<<"code", "404">>})),
     Patch({"extra_data"}, None, None, PyDict({})),
     Patch({"extra_data"}, None, None, PyNone)}

\* update_data after the json.dumps test: extra_data is serialized only when
\* it is in the patch and truthy; an empty dict stays a dict
UpdateExtra(extra) == IF Truthy(extra) THEN JsonDumps(extra) ELSE extra

\* for field, value in update_data.items(): setattr(db_log, field, value),
\* then db_log.updated_at = datetime.utcnow()
Patched(row, patch, ts) ==
    [id |-> row.id, timestamp |-> row.timestamp,
     level |-> IF "level" \in patch.fields THEN patch.level ELSE row.level,
     message |-> IF "message" \in patch.fields THEN patch.message ELSE row.message,
     extra_data |-> IF "extra_data" \in patch.fields
                    THEN UpdateExtra(patch.extra_data) ELSE row.extra_data,
     updated_at |-> ts]

\* The column extra_data is Optional[str]: the driver binds None or a string,
\* a dict is no bindable parameter and fails the flush of commit
Bindable(row) == row.extra_data.t \in {"None", "str"}

\* The points of update and delete at which the storage layer can fail
UpdateFaults == {"none", "select", "commit", "refresh"}

DeleteFaults == {"none", "select", "commit"}

\* The row of an id among committed rows rws, NoRow for None
Get(rws, id) == IF \E r \in rws : r.id = id THEN CHOOSE r \in rws : r.id = id ELSE NoRow

\* LogRepository.update(log_id, log_update) against committed rows rws.  A
\* failing get_by_id raises RuntimeError itself; a failing commit is rolled
\* back; session.refresh runs after the commit, so its failure finds the
\* update committed.
update(rws, id, ts, patch, fault) ==
    LET old == Get(rws, id)
        new == Patched(old, patch, ts)
    IN  CASE fault = "select" ->
                [rows |-> rws, raised |-> "RuntimeError", result |-> NoRow]
          [] old = NoRow ->
                [rows |-> rws, raised |-> None, result |-> NoRow]
          [] fault = "commit" \/ ~Bindable(new) ->
                [rows |-> rws, raised |-> "RuntimeError", result |-> NoRow]
          [] fault = "refresh" ->
                [rows |-> (rws \ {old}) \cup {new}, raised |-> "RuntimeError",
                 result |-> NoRow]
          [] OTHER ->
                [rows |-> (rws \ {old}) \cup {new}, raised |-> None, result |-> new]

\* LogRepository.update called directly
LogRepository_update(id, patch, fault) ==
    /\ impl = "logger_repository"
    /\ LET r == update(rows, id, now, patch, fault) IN
       /\ rows' = r.rows
       /\ resp' = [op |-> "LogRepository.update", id |-> id, patch |-> patch,
                   fault |-> fault, raised |-> r.raised, result |-> r.result]
    /\ UNCHANGED <<impl, session, sinks, loggers, objs, instances, services, firstInst, threads,
                   nextId, config, log_entries, nextUuid, now>>

\* A mutated delete: it reports the removal and leaves the row.
delete_keeps(rws, id, fault) ==
    [rows |-> rws, raised |-> None, result |-> \E r \in rws : r.id = id]

\* LogRepository.delete(log_id) against committed rows rws
delete(rws, id, fault) ==
    LET old == Get(rws, id)
    IN  CASE fault = "select" ->
                [rows |-> rws, raised |-> "RuntimeError", result |-> FALSE]
          [] old = NoRow ->
                [rows |-> rws, raised |-> None, result |-> FALSE]
          [] fault = "commit" ->
                [rows |-> rws, raised |-> "RuntimeError", result |-> FALSE]
          [] OTHER ->
                [rows |-> rws \ {old}, raised |-> None, result |-> TRUE]

\* LogRepository.delete called directly
LogRepository_delete(id, fault) ==
    /\ impl = "logger_repository"
    /\ LET r == delete(rows, id, fault) IN
       /\ rows' = r.rows
       /\ resp' = [op |-> "LogRepository.delete", id |-> id, fault |-> fault,
                   raised |-> r.raised, result |-> r.result]
    /\ UNCHANGED <<impl, session, sinks, loggers, objs, instances, services, firstInst, threads,
                   nextId, config, log_entries, nextUuid, now>>

\* LoggerService.get_log_entry returning None
NoEntry == [id |-> 0, timestamp |-> 0, level |-> None, message |-> None,
            extra_data |-> PyNone]

\* LoggerService.get_log_entry(entry_id): the first entry of that id, or None
LoggerService_get_log_entry(id) ==
    /\ impl = "logger_router"
    /\ resp' = [op |-> "LoggerService.get_log_entry", id |-> id, raised |-> None,
                result |-> IF \E i \in DOMAIN log_entries : log_entries[i].id = id
                           THEN log_entries[CHOOSE i \in DOMAIN log_entries :
                                    /\ log_entries[i].id = id
                                    /\ \A j \in 1..(i-1) : log_entries[j].id # id]
                           ELSE NoEntry]
    /\ UNCHANGED <<impl, session, sinks, loggers, objs, instances, services, firstInst, threads,
                   rows, nextId, config, log_entries, nextUuid, now>>

\* The stores under create, read, update and delete by identity, with the
\* storage layer failing at any point
InitMutate == InitOf({"logger_repository", "logger_router"}, <<>>)

NextMutate ==
    \/ \E draft \in Drafts, fault \in CreateFaults : LogRepository_create(draft, fault)
    \/ \E id \in 1..MaxRows, patch \in Patches, fault \in UpdateFaults :
          LogRepository_update(id, patch, fault)
    \/ \E id \in 1..MaxRows, fault \in DeleteFaults : LogRepository_delete(id, fault)
    \/ \E id \in 1..MaxRows : LogRepository_get_by_id(id)
    \/ \E draft \in Drafts : LoggerService_create_log_entry(draft)
    \/ \E id \in 1..MaxRows : LoggerService_get_log_entry(id)
    \/ Tick

SpecMutate == InitMutate /\ [][NextMutate]_vars

\* The stores under create, read, update and delete by identity, the
\* storage layer never failing
InitIdentity == InitOf({"logger_repository", "logger_router"}, <<>>)

NextIdentity ==
    \/ \E draft \in Drafts : LogRepository_create(draft, "none")
    \/ \E id \in 1..MaxRows, patch \in Patches : LogRepository_update(id, patch, "none")
    \/ \E id \in 1..MaxRows : LogRepository_delete(id, "none")
    \/ \E id \in 1..MaxRows : LogRepository_get_by_id(id)
    \/ \E draft \in Drafts : LoggerService_create_log_entry(draft)
    \/ \E id \in 1..MaxRows : LoggerService_get_log_entry(id)

SpecIdentity == InitIdentity /\ [][NextIdentity]_vars

----------------------------------------------------------------------------
(* src/api/logger_router.py: LoggerService.delete_log_entries *)

\* A mutated clear: the last entry survives.
clear_but_last(entries) ==
    IF entries = <<>> THEN <<>> ELSE <<entries[Len(entries)]>>

\* self.log_entries.clear()
clear(entries) == <<>>

\* LoggerService.delete_log_entries: counts, clears, returns the count
LoggerService_delete_log_entries ==
    /\ impl = "logger_router"
    /\ log_entries' = clear(log_entries)
    /\ resp' = [op |-> "LoggerService.delete_log_entries", raised |-> None,
                result |-> Len(log_entries)]
    /\ UNCHANGED <<impl, session, sinks, loggers, objs, instances, services, firstInst, threads,
                   rows, nextId, config, nextUuid, now>>

\* One LoggerService of the router: entries are created, listed and deleted
InitDeleteAll == InitOf({"logger_router"}, <<>>)

NextDeleteAll ==
    \/ \E draft \in Drafts : LoggerService_create_log_entry(draft)
    \/ LoggerService_delete_log_entries
    \/ \E level \in StoreLevels \cup {None}, start_time \in StartTimes,
          offset \in 0..1, limit \in 1..MaxLimit :
          LoggerService_get_log_entries(level, start_time, NoTime, offset, limit)
    \/ Tick

SpecDeleteAll == InitDeleteAll /\ [][NextDeleteAll]_vars

----------------------------------------------------------------------------
(* The JSON rendering: LogFormatter.format of logger_service.py and         *)
(* StructuredFormatter.format of logger_router.py                          *)

\* The keys format writes itself
FixedKeys == {"timestamp", "level", "logger", "message", "module", "function", "line"}

\* The keys a caller may give to its fields
FieldKeys == {"message", "line", "request_id"}

\* The caller's fields: a dict of some of the keys, every value "user"
FieldDicts == {[k \in K |-> "user"] : K \in SUBSET FieldKeys}

\* log_entry = {...}: the fixed keys with the values of the record, but for
\* timestamp, which is datetime.utcnow().isoformat() read while format runs
FixedEntry(name, levelname, message) ==
    [k \in FixedKeys |->
        CASE k = "timestamp" -> ToString(now)
          [] k = "level" -> levelname
          [] k = "logger" -> name
          [] k = "message" -> message
          [] k = "module" -> "record.module"
          [] k = "function" -> "record.funcName"
          [] k = "line" -> "record.lineno"]

\* dict.update: the keys of other are set in d, a key d has already included
update_dict(d, other) ==
    [k \in DOMAIN d \cup DOMAIN other |-> IF k \in DOMAIN other THEN other[k] ELSE d[k]]

\* format(record): the fixed entry, updated with record.extra_data when the
\* record has that attribute, then json.dumps
format(name, levelname, message, hasExtra, extra_data) ==
    IF hasExtra
    THEN update_dict(FixedEntry(name, levelname, message), extra_data)
    ELSE FixedEntry(name, levelname, message)

\* The parameters of _log_with_extra(self, level, message, **kwargs): a
\* keyword of one of these names is a second value for the parameter, and
\* the call raises TypeError
ParameterNames == {"level", "message"}

\* LoggerService.debug .. critical(message, **kwargs) of logger_service.py,
\* rendered by LogFormatter.format: extra_data is always set on the record,
\* to the kwargs
LogFormatter_format(name, levelname, message, kwargs) ==
    /\ impl = "logger_service"
    /\ resp' = IF DOMAIN kwargs \cap ParameterNames # {}
               THEN [op |-> "format", raised |-> "TypeError", fields |-> kwargs,
                     fixed |-> FixedEntry(name, levelname, message),
                     rendered |-> <<>>]
               ELSE [op |-> "format", raised |-> None, fields |-> kwargs,
                     fixed |-> FixedEntry(name, levelname, message),
                     rendered |-> format(name, levelname, message, TRUE, kwargs)]
    /\ UNCHANGED <<impl, session, sinks, loggers, objs, instances, services, firstInst, threads,
                   rows, nextId, config, log_entries, nextUuid, now>>

\* StructuredLogger.log(level, message, extra_data) of logger_router.py,
\* rendered by StructuredFormatter.format: extra_data is set on the record
\* only when it is truthy
StructuredFormatter_format(levelname, message, extra_data) ==
    /\ impl = "logger_router"
    /\ resp' = [op |-> "format", raised |-> None, fields |-> extra_data,
                fixed |-> FixedEntry(RouterName, levelname, message),
                rendered |-> format(RouterName, levelname, message,
                                    DOMAIN extra_data # {}, extra_data)]
    /\ UNCHANGED <<impl, session, sinks, loggers, objs, instances, services, firstInst, threads,
                   rows, nextId, config, log_entries, nextUuid, now>>

\* Records with caller fields, rendered
InitRender == InitOf({"logger_service", "logger_router"}, <<>>)

NextRender ==
    \/ \E name \in ServiceNames, levelname \in LevelNames, message \in Messages,
          kwargs \in FieldDicts :
          LogFormatter_format(name, levelname, message, kwargs)
    \/ \E levelname \in LevelNames, message \in Messages, extra_data \in FieldDicts :
          StructuredFormatter_format(levelname, message, extra_data)

SpecRender == InitRender /\ [][NextRender]_vars

----------------------------------------------------------------------------
(* One emission step by step, as threads run it: Logger.log tests the      *)
(* level, Logger.callHandlers walks the handler list of the logger, each   *)
(* Handler.handle writes under the handler's lock; between two steps       *)
(* another thread may run                                                  *)

\* The records a caller emits, one after the other
Records == <<"A", "B">>

\* The record a caller emits as its seq-th
Tag(t, seq) == [caller |-> t, record |-> Records[seq]]

\* The logger the emitting threads share
EmitName ==
    CASE impl = "logger_service" -> "app"
      [] impl = "logger_repository" -> RepoName
      [] impl = "logger_router" -> RouterName
      [] OTHER -> TestName

\* A thread that has not called yet: seq counts its emissions, i is the
\* position of the handler loop, wrote the destinations its current record
\* was written to; of a mutating call, arg is the log_file argument and
\* before the handler list the call found
IdleThreadOf(pc) ==
    [pc |-> pc, seq |-> 0, levelno |-> 0, i |-> 0, wrote |-> <<>>,
     arg |-> None, before |-> <<>>]

\* A mutated sink: the record goes in front of what the sink holds.
Write_front(log, tag) == <<tag>> \o log

\* stream.write of the formatted record, under the handler's lock
Write(log, tag) == Append(log, tag)

\* Logger.log(level, msg): `if self.isEnabledFor(level)`; a record below the
\* level is dropped here.  StructuredLogger.debug .. critical of
\* logger_repository.py go on to _log_to_db in both cases.
E_call(t, level) ==
    /\ threads[t].pc = "idle"
    /\ threads[t].seq < Len(Records)
    /\ threads' = [threads EXCEPT ![t] =
          [@ EXCEPT !.pc = IF isEnabledFor(loggers[EmitName], LevelNo(level))
                           THEN "dispatch"
                           ELSE IF impl = "logger_repository" THEN "persist" ELSE "idle",
                    !.seq = @ + 1, !.levelno = LevelNo(level), !.i = 1,
                    !.wrote = <<>>]]
    /\ UNCHANGED <<impl, session, sinks, loggers, objs, instances, services, firstInst, rows,
                   nextId, config, log_entries, nextUuid, now, resp>>

\* callHandlers: `for hdlr in c.handlers` takes the handler at the loop's
\* position in the list as it is now; `if record.levelno >= hdlr.level:
\* hdlr.handle(record)` writes the record
E_handle(t) ==
    /\ threads[t].pc = "dispatch"
    /\ threads[t].i <= Len(loggers[EmitName].handlers)
    /\ LET h == loggers[EmitName].handlers[threads[t].i] IN
       IF handle(h, threads[t].levelno, {}) = "write"
       THEN /\ sinks' = [sinks EXCEPT ![h.dest] = Write(@, Tag(t, threads[t].seq))]
            /\ threads' = [threads EXCEPT ![t].i = @ + 1,
                                          ![t].wrote = Append(@, h.dest)]
       ELSE /\ threads' = [threads EXCEPT ![t].i = @ + 1]
            /\ UNCHANGED sinks
    /\ UNCHANGED <<impl, session, loggers, objs, instances, services, firstInst, rows,
                   nextId, config, log_entries, nextUuid, now, resp>>

\* callHandlers: the loop's position is past the end of the list as it is
\* now, the loop ends and Logger.log returns
E_return(t) ==
    /\ threads[t].pc = "dispatch"
    /\ threads[t].i > Len(loggers[EmitName].handlers)
    /\ threads' = [threads EXCEPT ![t].pc =
                       IF impl = "logger_repository" THEN "persist" ELSE "idle"]
    /\ UNCHANGED <<impl, session, sinks, loggers, objs, instances, services, firstInst, rows,
                   nextId, config, log_entries, nextUuid, now, resp>>

\* StructuredLogger._log_to_db of logger_repository.py: create, its failure
\* caught and reported
E_persist(t, fault) ==
    /\ threads[t].pc = "persist"
    /\ LET draft == [level |-> "INFO", message |-> Tag(t, threads[t].seq),
                     extra_data |-> PyNone]
           r == create(rows, nextId, now, draft, fault)
       IN /\ rows' = r.rows
          /\ nextId' = IF r.rows = rows THEN nextId ELSE nextId + 1
    /\ threads' = [threads EXCEPT ![t].pc = "idle"]
    /\ UNCHANGED <<impl, session, sinks, loggers, objs, instances, services, firstInst,
                   config, log_entries, nextUuid, now, resp>>

\* MaxThreads callers emit their records on one LoggerService of
\* logger_service.py (console and file handler) or on one StructuredLogger
\* of logger_repository.py (console handler and the store)
InitOrder ==
    /\ impl \in {"logger_service", "logger_repository"}
    /\ loggers = [n \in LoggerNames |->
                     IF n = EmitName
                     THEN IF impl = "logger_service"
                          THEN _setup_logger(FreshLogger,
                                             [level |-> 10, file_path |-> "app.log"])
                          ELSE _configure_logger(FreshLogger)
                     ELSE FreshLogger]
    /\ objs = <<>>
    /\ instances = <<>>
    /\ services = <<>>
    /\ firstInst = <<>>
    /\ threads = [t \in Threads |-> IdleThreadOf("idle")]
    /\ rows = {}
    /\ nextId = 1
    /\ config = [log_level |-> "INFO", log_file |-> None]
    /\ log_entries = <<>>
    /\ nextUuid = 1
    /\ now = 0
    /\ resp = NoResp
    /\ sinks = [d \in Dests |-> <<>>]
    /\ session = NoSession

NextOrder ==
    \/ \E t \in Threads, level \in StoreLevels : E_call(t, level)
    \/ \E t \in Threads : E_handle(t)
    \/ \E t \in Threads : E_return(t)
    \/ \E t \in Threads, fault \in CreateFaults : E_persist(t, fault)

SpecOrder == InitOrder /\ [][NextOrder]_vars

\* The thread that emits and the thread that changes the handler list
Emitter == 1

Mutator == 2

\* StructuredLogger.__init__(name, level, log_file) of logger_router.py on
\* the name the emitter logs to, as LoggerService.__init__ and
\* update_logger_config run it: getLogger and setLevel
M_call(level, log_file) ==
    /\ impl = "logger_router"
    /\ threads[Mutator].pc = "m_idle"
    /\ threads' = [threads EXCEPT ![Mutator].pc = "m_clear",
                                  ![Mutator].arg = log_file,
                                  ![Mutator].before = loggers[RouterName].handlers]
    /\ loggers' = [loggers EXCEPT ![RouterName].level = LevelNo(level)]
    /\ UNCHANGED <<impl, session, sinks, objs, instances, services, firstInst, rows,
                   nextId, config, log_entries, nextUuid, now, resp>>

\* self.logger.handlers.clear()
M_clear ==
    /\ threads[Mutator].pc = "m_clear"
    /\ loggers' = [loggers EXCEPT ![RouterName].handlers = <<>>]
    /\ threads' = [threads EXCEPT ![Mutator].pc = "m_console"]
    /\ UNCHANGED <<impl, session, sinks, objs, instances, services, firstInst, rows,
                   nextId, config, log_entries, nextUuid, now, resp>>

\* self.logger.addHandler(console_handler)
M_console ==
    /\ threads[Mutator].pc = "m_console"
    /\ loggers' = [loggers EXCEPT ![RouterName].handlers = Append(@, Handler("console"))]
    /\ threads' = [threads EXCEPT ![Mutator].pc =
                       IF FileTruthy(threads[Mutator].arg) THEN "m_file" ELSE "m_done"]
    /\ UNCHANGED <<impl, session, sinks, objs, instances, services, firstInst, rows,
                   nextId, config, log_entries, nextUuid, now, resp>>

\* if log_file: self.logger.addHandler(file_handler)
M_file ==
    /\ threads[Mutator].pc = "m_file"
    /\ loggers' = [loggers EXCEPT ![RouterName].handlers = Append(@, Handler("file"))]
    /\ threads' = [threads EXCEPT ![Mutator].pc = "m_done"]
    /\ UNCHANGED <<impl, session, sinks, objs, instances, services, firstInst, rows,
                   nextId, config, log_entries, nextUuid, now, resp>>

\* Logger.clear_handlers of test_logger.py: self.logger.handlers.clear()
M_clear_handlers ==
    /\ impl = "test_logger"
    /\ threads[Mutator].pc = "m_idle"
    /\ loggers' = [loggers EXCEPT ![TestName].handlers = <<>>]
    /\ threads' = [threads EXCEPT ![Mutator].pc = "m_done",
                                  ![Mutator].before = loggers[TestName].handlers]
    /\ UNCHANGED <<impl, session, sinks, objs, instances, services, firstInst, rows,
                   nextId, config, log_entries, nextUuid, now, resp>>

\* One thread emits on a logger whose handler list another thread changes
\* once: the StructuredLogger of logger_router.py at INFO, with or without a
\* file handler, and the Logger of test_logger.py at INFO after
\* add_console_handler and add_file_handler
InitSnapshot ==
    /\ impl \in {"logger_router", "test_logger"}
    /\ \E log_file \in {None, "app.log"} :
          loggers = [n \in LoggerNames |->
                        CASE n = RouterName /\ impl = "logger_router" ->
                                StructuredLogger_new("INFO", log_file, FALSE)
                          [] n = TestName /\ impl = "test_logger" ->
                                [level |-> LevelNo("INFO"),
                                 handlers |-> IF log_file = None
                                     THEN <<[dest |-> "console", level |-> LevelNo("INFO")]>>
                                     ELSE <<[dest |-> "console", level |-> LevelNo("INFO")],
                                            [dest |-> "file", level |-> LevelNo("INFO")]>>]
                          [] OTHER -> FreshLogger]
    /\ objs = <<>>
    /\ instances = <<>>
    /\ services = <<>>
    /\ firstInst = <<>>
    /\ threads = <<IdleThreadOf("idle"), IdleThreadOf("m_idle")>>
    /\ rows = {}
    /\ nextId = 1
    /\ config = [log_level |-> "INFO", log_file |-> None]
    /\ log_entries = <<>>
    /\ nextUuid = 1
    /\ now = 0
    /\ resp = NoResp
    /\ sinks = [d \in Dests |-> <<>>]
    /\ session = NoSession

NextSnapshot ==
    \/ \E level \in StoreLevels : E_call(Emitter, level)
    \/ E_handle(Emitter)
    \/ E_return(Emitter)
    \/ \E log_file \in {None, "", "app.log"} : M_call("INFO", log_file)
    \/ M_clear
    \/ M_console
    \/ M_file
    \/ M_clear_handlers

SpecSnapshot == InitSnapshot /\ [][NextSnapshot]_vars

----------------------------------------------------------------------------
(* The message of a record: src/models/logger.py LogEntryCreate, and the   *)
(* emission path of src/repositories/logger_repository.py                  *)

\* message: str = Field(max_length=1000)
MessageMax == 1000

\* A message text, by the lengths of its leading whitespace, of its body
\* (from the first to the last character that is no whitespace) and of its
\* trailing whitespace
Texts == [lead : {0, 1}, body : {0, 1, MessageMax, MessageMax + 1}, trail : {0, 1}]

\* len(v)
TextLen(v) == v.lead + v.body + v.trail

\* v.strip(); a text without body is whitespace only and strips to ""
strip(v) == [lead |-> 0, body |-> v.body, trail |-> 0]

\* No value: the construction raised
NoText == [lead |-> -1, body |-> -1, trail |-> -1]

\* LogEntryCreate(message=v) of models/logger.py: the max_length of the
\* field is tested on the value given, then validate_message raises for an
\* empty or whitespace-only value and returns v.strip()
validate_message(v) ==
    IF TextLen(v) > MessageMax THEN [raised |-> "ValidationError", message |-> NoText]
    ELSE IF TextLen(v) = 0 \/ TextLen(strip(v)) = 0
         THEN [raised |-> "ValidationError", message |-> NoText]
         ELSE [raised |-> None, message |-> strip(v)]

\* LogEntryCreate(level=..., message=v) of models/logger.py constructed
LogEntryCreate_new(v) ==
    /\ impl = "models_logger"
    /\ resp' = [op |-> "LogEntryCreate", message |-> v,
                raised |-> validate_message(v).raised,
                result |-> validate_message(v).message]
    /\ UNCHANGED <<impl, session, sinks, loggers, objs, instances, services, firstInst, threads,
                   rows, nextId, config, log_entries, nextUuid, now>>

\* StructuredLogger.info(message) of logger_repository.py: self.logger.info
\* writes the message, then _log_to_db builds the LogEntryCreate of
\* logger_repository.py, whose message is a plain str without validator, and
\* creates the row
StructuredLogger_info(v) ==
    /\ impl = "logger_repository"
    /\ loggers[RepoName].handlers # <<>>
    /\ nextId <= MaxRows
    /\ LET draft == [level |-> "INFO", message |-> v, extra_data |-> PyNone]
           r == create(rows, nextId, now, draft, "none")
       IN /\ rows' = r.rows
          /\ nextId' = nextId + 1
          /\ resp' = [op |-> "StructuredLogger.info", message |-> v,
                      outcome |-> LoggerLog(loggers[RepoName], LevelNo("INFO"), {}),
                      raised |-> None, stored |-> r.result]
    /\ UNCHANGED <<impl, session, sinks, loggers, objs, instances, services, firstInst, threads,
                   config, log_entries, nextUuid, now>>

\* Messages of every kind, constructed and emitted
InitMessage == InitOf({"models_logger", "logger_repository"}, <<>>)

NextMessage ==
    \/ \E v \in Texts : LogEntryCreate_new(v)
    \/ StructuredLogger_init
    \/ \E v \in Texts : StructuredLogger_info(v)

SpecMessage == InitMessage /\ [][NextMessage]_vars

----------------------------------------------------------------------------
(* One record rendered more than once: by the formatter of each handler of *)
(* a dispatch, or again later                                              *)

\* The name of the logger whose records are rendered
RenderName == IF impl = "logger_service" THEN "app" ELSE RouterName

\* logging.LogRecord(...): created is time.time() at the call
LogRecord(levelname, message) ==
    [name |-> RenderName, levelname |-> levelname, message |-> message,
     created |-> now]

\* StructuredFormatter.format of models/logger.py: the timestamp is that of
\* record.created
format_models(record) ==
    [k \in {"timestamp", "level", "message", "module", "function",
            "line_number", "pathname"} |->
        CASE k = "timestamp" -> ToString(record.created)
          [] k = "level" -> record.levelname
          [] k = "message" -> record.message
          [] k = "module" -> "record.module"
          [] k = "function" -> "record.funcName"
          [] k = "line_number" -> "record.lineno"
          [] k = "pathname" -> "record.pathname"]

\* A record is made by a logging call
R_record(levelname, message) ==
    /\ impl \in {"logger_service", "logger_router", "models_logger"}
    /\ resp' = [op |-> "render", record |-> LogRecord(levelname, message),
                rendered |-> <<>>]
    /\ UNCHANGED <<impl, session, sinks, loggers, objs, instances, services, firstInst, threads,
                   rows, nextId, config, log_entries, nextUuid, now>>

\* handler.format(record): the formatter of the implementation renders the
\* record once more
R_format ==
    /\ resp.op = "render"
    /\ Len(resp.rendered) < 2
    /\ resp' = [resp EXCEPT !.rendered =
          Append(@, IF impl = "models_logger"
                    THEN format_models(resp.record)
                    ELSE format(resp.record.name, resp.record.levelname,
                                resp.record.message, FALSE, <<>>))]
    /\ UNCHANGED <<impl, session, sinks, loggers, objs, instances, services, firstInst, threads,
                   rows, nextId, config, log_entries, nextUuid, now>>

\* Time passes between two renderings
R_elapse ==
    /\ resp.op = "render"
    /\ now < MaxTime
    /\ now' = now + 1
    /\ UNCHANGED <<impl, session, sinks, loggers, objs, instances, services, firstInst, threads,
                   rows, nextId, config, log_entries, nextUuid, resp>>

\* Records made and rendered twice by each of the three formatters
InitPure == InitOf({"logger_service", "logger_router", "models_logger"}, <<>>)

NextPure ==
    \/ \E levelname \in LevelNames, message \in Messages : R_record(levelname, message)
    \/ R_format
    \/ R_elapse

SpecPure == InitPure /\ [][NextPure]_vars

----------------------------------------------------------------------------
(* tests/test_logger.py: one Logger object, its level and its handlers *)

\* Level names that set_level cannot turn into a level: "TRACE" is no
\* attribute of logging, "BASIC_FORMAT" is one but names a string
BadLevelNames == {"TRACE", "BASIC_FORMAT"}

\* set_level(level) of such a name: getattr raises AttributeError before
\* anything is assigned, or self.level takes the string and
\* self.logger.setLevel raises ValueError before any level is changed
Logger_set_level_raises(o, level) ==
    /\ impl = "test_logger"
    /\ o \in DOMAIN objs
    /\ objs' = IF level = "BASIC_FORMAT"
               THEN [objs EXCEPT ![o].level = BasicFormat]
               ELSE objs
    /\ resp' = [op |-> "Logger.set_level", level |-> level,
                raised |-> IF level = "BASIC_FORMAT" THEN "ValueError"
                           ELSE "AttributeError"]
    /\ UNCHANGED <<impl, session, sinks, loggers, instances, services, firstInst, threads, rows,
                   nextId, config, log_entries, nextUuid, now>>

\* One Logger object of a name no other object uses
InitOneObject == InitOf({"test_logger"}, <<>>)

NextOneObject ==
    \/ \E level \in LevelNames : Logger_init(1, level)
    \/ \E dest \in Dests : Logger_add_handler(1, dest)
    \/ \E level \in LevelNames : Logger_set_level(1, level)
    \/ \E level \in BadLevelNames : Logger_set_level_raises(1, level)
    \/ \E level \in LevelNames : Logger_log(1, level)

SpecOneObject == InitOneObject /\ [][NextOneObject]_vars

----------------------------------------------------------------------------
(* src/repositories/logger_repository.py: update and delete called from    *)
(* concurrent threads on one LogRepository, that is on one Session.  The   *)
(* repository takes no lock; a thread may be switched between any two      *)
(* session calls.                                                          *)

\* The attributes of the object of an id as the session holds them: those
\* set and not yet committed, else the committed row
InMemory(id) ==
    IF \E r \in session.dirty : r.id = id THEN Get(session.dirty, id) ELSE Get(rows, id)

\* The committed rows after the flush of session.commit(): the marked
\* objects are deleted, the dirty ones written
Flushed(rws, s) ==
    {IF \E d \in s.dirty : d.id = r.id THEN Get(s.dirty, r.id) ELSE r :
        r \in {x \in rws : x.id \notin s.marked}}

\* session.commit()
Committed(s) == [dirty |-> {}, marked |-> {}, gone |-> s.gone \cup s.marked]

\* session.rollback(): what any thread left pending is dropped
RolledBack(s) == [dirty |-> {}, marked |-> {}, gone |-> s.gone]

\* The calls of the racing threads: update with a patch the store can bind,
\* or delete
RaceCalls ==
    {[op |-> "update", id |-> id, patch |-> patch] :
        id \in 1..MaxRows,
        patch \in {p \in Patches : p.fields # {} /\ "extra_data" \notin p.fields}}
    \cup {[op |-> "delete", id |-> id, patch |-> Patch({}, None, None, PyNone)] :
             id \in 1..MaxRows}

\* A thread that has not called yet: ticket is the number of calls begun
\* before its own, before the committed rows its call found
IdleRacer ==
    [pc |-> "idle", call |-> CHOOSE c \in RaceCalls : TRUE, ticket |-> 0,
     before |-> {}, raised |-> None, row |-> NoRow, ok |-> FALSE]

\* LogRepository.create before the threads start
Race_create(draft) ==
    /\ \A t \in DOMAIN threads : threads[t].pc = "idle"
    /\ LogRepository_create(draft, "none")

\* update(log_id, log_update) / delete(log_id) is entered
Race_call(t, call) ==
    /\ impl = "logger_repository"
    /\ threads[t].pc = "idle"
    /\ \E r \in rows : r.id = call.id
    /\ threads' = [threads EXCEPT ![t] =
          [@ EXCEPT !.pc = "select", !.call = call, !.before = rows,
                    !.ticket = Cardinality({u \in DOMAIN threads :
                                               threads[u].pc # "idle"})]]
    /\ UNCHANGED <<impl, session, sinks, loggers, objs, instances, services, firstInst,
                   rows, nextId, config, log_entries, nextUuid, now, resp>>

\* db_log = self.get_by_id(log_id); `if not db_log: return None / False`.
\* The query flushes first, so a row marked for deletion is not found.
Race_select(t) ==
    /\ threads[t].pc = "select"
    /\ LET id == threads[t].call.id
           found == (\E r \in rows : r.id = id) /\ id \notin session.marked
       IN  threads' = [threads EXCEPT ![t].pc =
               IF ~found THEN "done"
               ELSE IF threads[t].call.op = "update" THEN "setattr" ELSE "delete"]
    /\ UNCHANGED <<impl, session, sinks, loggers, objs, instances, services, firstInst,
                   rows, nextId, config, log_entries, nextUuid, now, resp>>

\* update: the setattr loop and db_log.updated_at.  An object whose
\* deletion was committed is detached, the session does not see the change.
Race_setattr(t) ==
    /\ threads[t].pc = "setattr"
    /\ LET id == threads[t].call.id IN
       session' = IF id \in session.gone THEN session
                  ELSE [session EXCEPT !.dirty =
                           {r \in @ : r.id # id}
                           \cup {Patched(InMemory(id), threads[t].call.patch, now)}]
    /\ threads' = [threads EXCEPT ![t].pc = "add"]
    /\ UNCHANGED <<impl, sinks, loggers, objs, instances, services, firstInst, rows,
                   nextId, config, log_entries, nextUuid, now, resp>>

\* update: self.session.add(db_log).  Adding an object marked for deletion
\* takes the mark back; adding one whose deletion was committed raises
\* InvalidRequestError, which the except clause answers with rollback and
\* RuntimeError.
Race_add(t) ==
    /\ threads[t].pc = "add"
    /\ LET id == threads[t].call.id IN
       IF id \in session.gone
       THEN /\ session' = RolledBack(session)
            /\ threads' = [threads EXCEPT ![t].pc = "done",
                                          ![t].raised = "RuntimeError"]
       ELSE /\ session' = [session EXCEPT !.marked = @ \ {id}]
            /\ threads' = [threads EXCEPT ![t].pc = "commit"]
    /\ UNCHANGED <<impl, sinks, loggers, objs, instances, services, firstInst, rows,
                   nextId, config, log_entries, nextUuid, now, resp>>

\* delete: self.session.delete(db_log)
Race_delete(t) ==
    /\ threads[t].pc = "delete"
    /\ session' = [session EXCEPT !.marked = @ \cup {threads[t].call.id}]
    /\ threads' = [threads EXCEPT ![t].pc = "commit"]
    /\ UNCHANGED <<impl, sinks, loggers, objs, instances, services, firstInst, rows,
                   nextId, config, log_entries, nextUuid, now, resp>>

\* self.session.commit(): everything pending in the session is committed,
\* whichever thread left it there.  A DELETE that matches no row is a
\* warning, not an error.  delete returns True here.
Race_commit(t) ==
    /\ threads[t].pc = "commit"
    /\ rows' = Flushed(rows, session)
    /\ session' = Committed(session)
    /\ threads' = [threads EXCEPT ![t] =
          IF threads[t].call.op = "update"
          THEN [@ EXCEPT !.pc = "refresh"]
          ELSE [@ EXCEPT !.pc = "done", !.ok = TRUE]]
    /\ UNCHANGED <<impl, sinks, loggers, objs, instances, services, firstInst,
                   nextId, config, log_entries, nextUuid, now, resp>>

\* update: self.session.refresh(db_log); return db_log.  refresh flushes and
\* reloads the row; when the row is gone it raises InvalidRequestError,
\* answered with rollback and RuntimeError.
Race_refresh(t) ==
    /\ threads[t].pc = "refresh"
    /\ LET id == threads[t].call.id
           found == (\E r \in rows : r.id = id) /\ id \notin session.marked
       IN  IF found
           THEN /\ threads' = [threads EXCEPT ![t].pc = "done",
                                              ![t].row = InMemory(id)]
                /\ UNCHANGED session
           ELSE /\ threads' = [threads EXCEPT ![t].pc = "done",
                                              ![t].raised = "RuntimeError"]
                /\ session' = RolledBack(session)
    /\ UNCHANGED <<impl, sinks, loggers, objs, instances, services, firstInst, rows,
                   nextId, config, log_entries, nextUuid, now, resp>>

\* Two threads, each with one update or delete on the shared repository
InitRace == InitOf({"logger_repository"}, [t \in Threads |-> IdleRacer])

NextRace ==
    \/ \E draft \in Drafts : Race_create(draft)
    \/ \E t \in Threads, call \in RaceCalls : Race_call(t, call)
    \/ \E t \in Threads : Race_select(t)
    \/ \E t \in Threads : Race_setattr(t)
    \/ \E t \in Threads : Race_add(t)
    \/ \E t \in Threads : Race_delete(t)
    \/ \E t \in Threads : Race_commit(t)
    \/ \E t \in Threads : Race_refresh(t)

SpecRace == InitRace /\ [][NextRace]_vars

----------------------------------------------------------------------------
(* src/api/logger_router.py: one LoggerConfigUpdate applied twice in a row *)

\* update_logger_config called again with the config_update of the call
\* that has just returned: once is the config and the logger that call
\* left, first what it returned
LoggerService_update_logger_config_again(openFails) ==
    /\ impl = "logger_router"
    /\ resp.op \in {"LoggerService.update_logger_config",
                    "LoggerService.update_logger_config again"}
    /\ resp.raised = None
    /\ LET r == update_logger_config(config, loggers[RouterName], resp.log_level,
                                     resp.log_file, openFails)
       IN
       /\ config' = r.config
       /\ loggers' = [loggers EXCEPT ![RouterName] = r.logger]
       /\ resp' = [op |-> "LoggerService.update_logger_config again",
                   log_level |-> resp.log_level, log_file |-> resp.log_file,
                   raised |-> r.raised, result |-> r.result,
                   once |-> [config |-> config, logger |-> loggers[RouterName]],
                   first |-> resp.result]
    /\ UNCHANGED <<impl, session, sinks, objs, instances, services, firstInst, threads, rows,
                   nextId, log_entries, nextUuid, now>>

\* The facade constructed, reconfigured, reconfigured again the same way,
\* and taking entries
InitConfig == InitOf({"logger_router"}, <<>>)

NextConfig ==
    \/ \E openFails \in BOOLEAN : LoggerService_init(openFails)
    \/ \E updLevel \in StoreLevels \cup {None}, updFile \in {None, "", "app.log"},
          openFails \in BOOLEAN :
          LoggerService_update_logger_config(updLevel, updFile, openFails)
    \/ \E openFails \in BOOLEAN : LoggerService_update_logger_config_again(openFails)
    \/ \E draft \in Drafts : LoggerService_create_log_entry(draft)

SpecConfig == InitConfig /\ [][NextConfig]_vars

----------------------------------------------------------------------------
(* src/api/logger_router.py: the handlers of the logger over constructions *)
(* and reconfigurations that succeed                                       *)

\* LoggerService.get_logger_config called directly
LoggerService_get_logger_config ==
    /\ impl = "logger_router"
    /\ resp' = [op |-> "LoggerService.get_logger_config", raised |-> None,
                result |-> get_logger_config(config, loggers[RouterName])]
    /\ UNCHANGED <<impl, session, sinks, loggers, objs, instances, services, firstInst, threads,
                   rows, nextId, config, log_entries, nextUuid, now>>

\* Every log file can be opened
InitHandlers == InitOf({"logger_router"}, <<>>)

NextHandlers ==
    \/ LoggerService_init(FALSE)
    \/ \E updLevel \in StoreLevels \cup {None}, updFile \in {None, "", "app.log"} :
          LoggerService_update_logger_config(updLevel, updFile, FALSE)
    \/ LoggerService_get_logger_config
    \/ \E draft \in Drafts : LoggerService_create_log_entry(draft)

SpecHandlers == InitHandlers /\ [][NextHandlers]_vars

----------------------------------------------------------------------------
(* src/api/logger_router.py: the route handlers.  Each request resolves    *)
(* Depends(get_logger_service), which builds a LoggerService from the      *)
(* cached LoggerConfig: a new StructuredLogger and an empty log_entries    *)
(* list; the handler then calls that service.  log_entries is the list of  *)
(* the service of the latest request.                                      *)

\* get_logger_service(config): the logger of the service it returns
get_logger_service == StructuredLogger_new(config.log_level, config.log_file, FALSE)

\* POST /logs: service.create_log_entry(log_data)
Route_create_log_entry(draft) ==
    /\ impl = "logger_router"
    /\ nextUuid <= MaxRows
    /\ LET entry == [id |-> nextUuid, timestamp |-> now, level |-> draft.level,
                     message |-> draft.message, extra_data |-> draft.extra_data]
       IN
       /\ loggers' = [loggers EXCEPT ![RouterName] = get_logger_service]
       /\ log_entries' = Append(<<>>, entry)
       /\ resp' = [op |-> "POST /logs", id |-> entry.id, status |-> 201,
                   result |-> <<entry>>]
    /\ nextUuid' = nextUuid + 1
    /\ UNCHANGED <<impl, session, sinks, objs, instances, services, firstInst, threads,
                   rows, nextId, config, now>>

\* GET /logs/{entry_id}: service.get_log_entry(entry_id), 404 for None
Route_get_log_entry(id) ==
    /\ impl = "logger_router"
    /\ loggers' = [loggers EXCEPT ![RouterName] = get_logger_service]
    /\ log_entries' = <<>>
    /\ LET found == SelectSeq(log_entries', LAMBDA e : e.id = id) IN
       resp' = [op |-> "GET /logs/{entry_id}", id |-> id,
                status |-> IF found = <<>> THEN 404 ELSE 200,
                result |-> IF found = <<>> THEN <<>> ELSE <<found[1]>>]
    /\ UNCHANGED <<impl, session, sinks, objs, instances, services, firstInst, threads,
                   rows, nextId, config, nextUuid, now>>

\* GET /logs: service.get_log_entries(query_params)
Route_get_log_entries(level, offset, limit) ==
    /\ impl = "logger_router"
    /\ loggers' = [loggers EXCEPT ![RouterName] = get_logger_service]
    /\ log_entries' = <<>>
    /\ resp' = [op |-> "GET /logs", id |-> 0, status |-> 200,
                result |-> Page(Filter(log_entries', level, NoTime, NoTime),
                                offset, limit)]
    /\ UNCHANGED <<impl, session, sinks, objs, instances, services, firstInst, threads,
                   rows, nextId, config, nextUuid, now>>

\* DELETE /logs: service.delete_log_entries()
Route_delete_log_entries ==
    /\ impl = "logger_router"
    /\ loggers' = [loggers EXCEPT ![RouterName] = get_logger_service]
    /\ log_entries' = clear(<<>>)
    /\ resp' = [op |-> "DELETE /logs", id |-> 0, status |-> 200, result |-> <<>>]
    /\ UNCHANGED <<impl, session, sinks, objs, instances, services, firstInst, threads,
                   rows, nextId, config, nextUuid, now>>

\* PUT /config: service.update_logger_config(config_update)
Route_update_logger_config(updLevel, updFile) ==
    /\ impl = "logger_router"
    /\ LET r == update_logger_config(config, get_logger_service, updLevel, updFile, FALSE)
       IN  /\ config' = r.config
           /\ loggers' = [loggers EXCEPT ![RouterName] = r.logger]
    /\ log_entries' = <<>>
    /\ resp' = [op |-> "PUT /config", id |-> 0, status |-> 200, result |-> <<>>]
    /\ UNCHANGED <<impl, session, sinks, objs, instances, services, firstInst, threads,
                   rows, nextId, nextUuid, now>>

\* Requests served one after the other
InitRequests == InitOf({"logger_router"}, <<>>)

NextRequests ==
    \/ \E draft \in Drafts : Route_create_log_entry(draft)
    \/ \E id \in 1..MaxRows : Route_get_log_entry(id)
    \/ \E level \in StoreLevels \cup {None}, offset \in 0..1, limit \in 1..MaxLimit :
          Route_get_log_entries(level, offset, limit)
    \/ Route_delete_log_entries
    \/ \E updLevel \in StoreLevels \cup {None}, updFile \in {None, "", "app.log"} :
          Route_update_logger_config(updLevel, updFile)
    \/ Tick

SpecRequests == InitRequests /\ [][NextRequests]_vars

----------------------------------------------------------------------------
(* Claims *)

\* The calls that emit one record through logging.Logger.log with every
\* destination healthy
IsEmission == resp.op \in {"Logger._log", "LoggerService.create_log_entry"}

\* The logger the last emission went through
EmitLogger == loggers[resp.logger]

\* C1 as stated: with a logger at minimum level L2, a call below L2 writes
\* to no attached sink and a call at or above L2 is written to every
\* attached sink.
C1_AsStated ==
    IsEmission =>
        /\ resp.levelno < EmitLogger.level =>
              \A i \in DOMAIN resp.outcome : resp.outcome[i] # "write"
        /\ resp.levelno >= EmitLogger.level =>
              \A i \in DOMAIN resp.outcome : resp.outcome[i] = "write"

\* C1 amended: with a logger at minimum level L2, a call below L2 writes to
\* no attached sink; a call at or above L2 is written to exactly the
\* attached sinks whose own handler level is at or below the call's level.
C1_LevelGate ==
    IsEmission =>
        /\ DOMAIN resp.outcome = 1..Len(EmitLogger.handlers)
        /\ resp.levelno < EmitLogger.level =>
              \A i \in DOMAIN resp.outcome : resp.outcome[i] # "write"
        /\ resp.levelno >= EmitLogger.level =>
              \A i \in DOMAIN resp.outcome :
                  resp.outcome[i] = "write" <=> resp.levelno >= EmitLogger.handlers[i].level

\* C1 witness: two levels L1 < L2, the logger at L2 after a set_level, a sink
\* attached, and a call at L1 gated away
C1_Witness ==
    /\ resp.op = "Logger._log"
    /\ Len(EmitLogger.handlers) = 2
    /\ resp.levelno < EmitLogger.level
    /\ \E i \in 1..2 : EmitLogger.handlers[i].level <= resp.levelno

Constructed(name) == {i \in DOMAIN services : services[i].name = name}

\* C4 as stated: under every interleaving of concurrent create_logger calls
\* of one name, exactly one LoggerService is constructed for the name and all
\* callers receive that same instance.
C4_OneInstancePerName ==
    \A n \in ServiceNames :
        /\ Cardinality(Constructed(n)) <= 1
        /\ \A t, u \in DOMAIN threads :
              (threads[t].pc = "done" /\ threads[u].pc = "done"
               /\ threads[t].name = n /\ threads[u].name = n)
              => threads[t].result = threads[u].result

\* C5: two sinks, exactly one failing on every write: the healthy sink is
\* written, whichever of the two fails, the failure is reported once on
\* stderr and nothing is raised to the caller.
C5_HealthySinkWritten ==
    (/\ resp.op = "LoggerService._log_with_extra"
     /\ Len(loggers[resp.logger].handlers) = 2
     /\ isEnabledFor(loggers[resp.logger], resp.levelno)
     /\ Cardinality(resp.broken) = 1)
    => /\ \A i \in 1..2 :
             resp.outcome[i] = IF loggers[resp.logger].handlers[i].dest \in resp.broken
                               THEN "error" ELSE "write"
       /\ Reports(resp.outcome) = 1
       /\ resp.raised = None

\* C5 witness: the first of the two sinks failed and the second was written
C5_Witness ==
    /\ resp.op = "LoggerService._log_with_extra"
    /\ Len(loggers[resp.logger].handlers) = 2
    /\ resp.outcome = <<"error", "write">>

\* The calls that emit one record and then persist it
IsPersistingEmission == {"StructuredLogger.emit", "LoggerService.create_log_entry"}

\* C2 as stated: a call at a level below the logger's minimum level adds no
\* row to the store, neither through StructuredLogger.debug .. critical and
\* _log_to_db nor through LoggerService.create_log_entry.
C2_BelowLevelNoRow ==
    [][(/\ resp'.op \in IsPersistingEmission
        /\ resp'.levelno < getEffectiveLevel(loggers'[resp'.logger]))
       => (rows' = rows /\ log_entries' = log_entries)]_vars

\* C6 as stated: when create fails during an emission the failure is caught
\* in _log_to_db, reported once through the console logger, not raised to
\* the caller, leaves no row in the store, and the report starts no second
\* create.
C6_CreateFailureAbsorbed ==
    [][(resp'.op = "StructuredLogger.emit" /\ resp'.fault # "none")
       => /\ resp'.raised = None
          /\ resp'.reported = <<"write">>
          /\ resp'.creates = 1
          /\ rows' = rows]_vars

\* C7 as stated: a successful create followed immediately by get_by_id of
\* the returned id returns an entry whose message, level and deserialized
\* fields equal the input, an empty fields mapping included.
C7_RoundTrip ==
    [][(/\ resp.op = "LogRepository.create"
        /\ resp.raised = None
        /\ resp'.op = "LogRepository.get_by_id"
        /\ resp'.id = resp.result.id)
       => /\ resp'.result.message = resp.draft.message
          /\ resp'.result.level = resp.draft.level
          /\ JsonLoads(resp'.result.extra_data) = resp.draft.extra_data]_vars

\* The list calls: get_all / get_by_level and get_log_entries
IsList == resp.op \in {"LogRepository.list", "LoggerService.get_log_entries"}

\* The stored entries of the running implementation
StoredEntries == IF impl = "logger_repository" THEN rows ELSE Range(log_entries)

\* An entry satisfies every part of the filter that is present: level equal,
\* timestamp >= start_time, timestamp <= end_time
Satisfies(e, q) ==
    /\ q.level = None \/ e.level = q.level
    /\ q.start_time = NoTime \/ e.timestamp >= q.start_time
    /\ q.end_time = NoTime \/ e.timestamp <= q.end_time

\* The stored entries matching the filter of the last list call
Matching == {e \in StoredEntries : Satisfies(e, resp)}

Min(a, b) == IF a < b THEN a ELSE b

Max(a, b) == IF a > b THEN a ELSE b

\* C8: a list call with offset >= 0 and limit K >= 1 returns at most K
\* entries and exactly min(K, max(0, M - offset)) of the M stored entries
\* that match the filter, each of them once.
C8_PageSize ==
    IsList =>
        /\ Len(resp.result) <= resp.limit
        /\ Len(resp.result) =
              Min(resp.limit, Max(0, Cardinality(Matching) - resp.skip))
        /\ Range(resp.result) \subseteq Matching
        /\ Cardinality(Range(resp.result)) = Len(resp.result)

\* C8 witness: the filter leaves the later one of two stored entries and the
\* list call with limit 1 returns it
C8_Witness ==
    /\ resp.op = "LoggerService.get_log_entries"
    /\ Len(log_entries) = 2
    /\ resp.level # None /\ resp.skip = 0 /\ resp.limit = 1
    /\ resp.result = <<log_entries[2]>>

\* C9 as stated: every list result is ordered descending by timestamp, and
\* the entries an offset skips are the most recent matching ones.
C9_DescendingOrder ==
    IsList =>
        /\ \A i, j \in DOMAIN resp.result :
              i < j => resp.result[i].timestamp >= resp.result[j].timestamp
        /\ (resp.skip >= 1 /\ resp.result # <<>>) =>
              \E e \in Matching \ Range(resp.result) :
                  \A r \in Range(resp.result) : e.timestamp >= r.timestamp

\* C10: a list call returns only entries that satisfy every present part of
\* the filter, and, when pagination cuts nothing (offset 0, limit not below
\* the store size), all of them.
C10_FilterExact ==
    IsList =>
        /\ Range(resp.result) \subseteq Matching
        /\ (resp.skip = 0 /\ resp.limit >= Cardinality(StoredEntries)) =>
              Range(resp.result) = Matching

\* C10 witness: a query with level and start_time, an entry stamped exactly
\* start_time returned and another entry left out
C10_Witness ==
    /\ resp.op = "LoggerService.get_log_entries"
    /\ resp.level # None /\ resp.start_time # NoTime /\ resp.skip = 0
    /\ \E e \in Range(resp.result) : e.timestamp = resp.start_time
    /\ StoredEntries \ Matching # {}

\* C11 as stated: a list call with skip < 0, limit < 1 or limit > 1000 is
\* rejected with a validation error and returns no entries, through the
\* repository as well as through LogQueryParams.
C11_OutOfRangeRejected ==
    (/\ resp.op \in {"LoggerService.get_logs", "LogQueryParams"}
     /\ (resp.skip < 0 \/ resp.limit < 1 \/ resp.limit > LimitMax))
    => /\ resp.raised = "ValidationError"
       /\ resp.result = <<>>


\* C12 as stated: update(id, patch) on an existing id sets exactly the
\* fields present in the patch to the patch's values, leaves the other
\* fields, id and timestamp as they were, sets updated_at to the current
\* time and leaves every other row unchanged.
C12_UpdateFrame ==
    [][(resp'.op = "LogRepository.update" /\ Get(rows, resp'.id) # NoRow)
       => LET old == Get(rows, resp'.id)
              new == Get(rows', resp'.id)
              patch == resp'.patch
          IN  /\ new.id = old.id
              /\ new.timestamp = old.timestamp
              /\ new.level = IF "level" \in patch.fields
                             THEN patch.level ELSE old.level
              /\ new.message = IF "message" \in patch.fields
                               THEN patch.message ELSE old.message
              /\ JsonLoads(new.extra_data) =
                    IF "extra_data" \in patch.fields
                    THEN patch.extra_data ELSE JsonLoads(old.extra_data)
              /\ new.updated_at = now
              /\ rows' \ {new} = rows \ {old}]_vars

\* C13: on an id that is not in the store get_by_id, get_log_entry and
\* update return None, delete returns False, none raises and the store is
\* unchanged; on an id that is in the store delete returns True and removes
\* exactly that row, after which the id is one not in the store.
C13_NotFound ==
    [][/\ (resp'.op = "LogRepository.get_by_id" /\ Get(rows, resp'.id) = NoRow)
          => (resp'.result = NoRow /\ rows' = rows)
       /\ (/\ resp'.op = "LoggerService.get_log_entry"
           /\ \A e \in Range(log_entries) : e.id # resp'.id)
          => (resp'.result = NoEntry /\ resp'.raised = None
              /\ log_entries' = log_entries)
       /\ (resp'.op = "LogRepository.update" /\ Get(rows, resp'.id) = NoRow)
          => (resp'.result = NoRow /\ resp'.raised = None /\ rows' = rows)
       /\ (resp'.op = "LogRepository.delete" /\ Get(rows, resp'.id) = NoRow)
          => (resp'.result = FALSE /\ resp'.raised = None /\ rows' = rows)
       /\ (resp'.op = "LogRepository.delete" /\ Get(rows, resp'.id) # NoRow)
          => /\ resp'.result = TRUE /\ resp'.raised = None
             /\ rows' = rows \ {Get(rows, resp'.id)}
             /\ Get(rows', resp'.id) = NoRow]_vars

\* C13 witness: a delete of a stored id answered True, with another row
\* left in the store
C13_Witness ==
    /\ resp.op = "LogRepository.delete"
    /\ resp.result = TRUE
    /\ rows # {}
    /\ nextId > resp.id

\* The fault of the last repository call was met: the select is the first
\* statement of update and delete, their commit and refresh are reached only
\* on a stored id
FaultMet ==
    /\ resp'.op \in {"LogRepository.create", "LogRepository.update",
                     "LogRepository.delete"}
    /\ resp'.fault # "none"
    /\ \/ resp'.op = "LogRepository.create"
       \/ resp'.fault = "select"
       \/ Get(rows, resp'.id) # NoRow

\* C15 as stated: a storage fault during a direct create, update or delete
\* raises RuntimeError to the caller and leaves the committed rows exactly as
\* they were before the call.
C15_FaultLeavesStore ==
    [][FaultMet => (resp'.raised = "RuntimeError" /\ rows' = rows)]_vars


\* C14: delete_log_entries returns the number of entries stored just before
\* the call and empties the store; while the store is empty every list call,
\* whatever its filter, returns the empty sequence, and only a create makes
\* the store non-empty again.  (A step that moves the clock is no call.)
C14_DeleteAll ==
    [][/\ (resp'.op = "LoggerService.delete_log_entries" /\ now' = now)
          => (resp'.result = Len(log_entries) /\ log_entries' = <<>>)
       /\ (log_entries = <<>> /\ resp'.op = "LoggerService.get_log_entries")
          => (resp'.result = <<>> /\ log_entries' = <<>>)
       /\ (log_entries = <<>> /\ log_entries' # <<>>)
          => resp'.op = "LoggerService.create_log_entry"]_vars

\* C14 witness: delete_log_entries answered 2 for a store of two entries
C14_Witness ==
    /\ resp.op = "LoggerService.delete_log_entries"
    /\ resp.result = 2
    /\ log_entries = <<>>


\* C16 as stated: update_logger_config is atomic.  When rebuilding the sinks
\* fails, the caller gets the failure and config and the logger's level and
\* handlers are what they were before the call; when it succeeds, config
\* carries the update, the logger has the new level and, for a new log_file,
\* the sinks are those of the new config.
C16_ReconfigureAtomic ==
    [][(resp'.op = "LoggerService.update_logger_config" /\ now' = now)
       => IF resp'.raised # None
          THEN /\ config' = config
               /\ loggers'[RouterName] = loggers[RouterName]
          ELSE /\ config'.log_level =
                     IF resp'.log_level # None THEN resp'.log_level ELSE config.log_level
               /\ config'.log_file =
                     IF resp'.log_file # None THEN resp'.log_file ELSE config.log_file
               /\ loggers'[RouterName].level = LevelNo(config'.log_level)
               /\ resp'.log_file # None =>
                     Len(loggers'[RouterName].handlers) =
                        IF FileTruthy(config'.log_file) THEN 2 ELSE 1]_vars


\* C19 as stated: the handler list of a logger never holds two sinks of one
\* destination, so an emission is written at most once per destination.
C19_NoDuplicateSinks ==
    /\ \A i, j \in 1..Len(loggers[TestName].handlers) :
          i # j => loggers[TestName].handlers[i].dest # loggers[TestName].handlers[j].dest
    /\ resp.op = "Logger._log" =>
          \A d \in Dests :
              Cardinality({i \in DOMAIN resp.outcome :
                              /\ resp.outcome[i] = "write"
                              /\ loggers[TestName].handlers[i].dest = d}) <= 1


\* C20 as stated: in the rendered object every fixed key (timestamp, level,
\* logger, message, module, function, line) carries the record's own value,
\* also when the caller's fields hold a key of that name.
C20_FixedKeysWin ==
    (resp.op = "format" /\ resp.raised = None)
    => \A k \in FixedKeys : resp.rendered[k] = resp.fixed[k]


\* The positions of a record in what a destination has received
Positions(d, tag) == {i \in DOMAIN sinks[d] : sinks[d][i] = tag}

\* C17: when one caller emits record A and then record B, every sink that
\* has B has received A before it, and the store, when it holds both rows,
\* has given A's row the smaller id; other callers emit on the same logger
\* meanwhile.
C17_CallerOrder ==
    \A t \in DOMAIN threads :
        /\ \A d \in Dests : \A j \in Positions(d, Tag(t, 2)) :
              \E i \in Positions(d, Tag(t, 1)) : i < j
        /\ \A a, b \in rows :
              (a.message = Tag(t, 1) /\ b.message = Tag(t, 2)) => a.id < b.id

\* C17 witness: a sink has received A and B of caller 1 with a record of
\* caller 2 between them
C17_Witness ==
    \E i, j, k \in DOMAIN sinks["console"] :
        /\ i < j /\ j < k
        /\ sinks["console"][i] = Tag(1, 1)
        /\ sinks["console"][j].caller = 2
        /\ sinks["console"][k] = Tag(1, 2)


\* The destinations of a handler list, in list order
DestsOf(handlers) == [i \in 1..Len(handlers) |-> handlers[i].dest]

\* C18 as stated: when the handler list is changed while a record is
\* dispatched, the record is written to all sinks of the list before the
\* change or to all sinks of the list after it, never to a part of a list
\* and never to none.  (Read when the emitter has returned and the changing
\* call has not started or is complete.)
C18_ConsistentSnapshot ==
    (/\ threads[Emitter].pc = "idle" /\ threads[Emitter].seq >= 1
     /\ threads[Mutator].pc \in {"m_idle", "m_done"})
    => \/ threads[Emitter].wrote = DestsOf(loggers[EmitName].handlers)
       \/ /\ threads[Mutator].pc = "m_done"
          /\ threads[Emitter].wrote = DestsOf(threads[Mutator].before)


\* A message that is empty after trimming or longer than 1000 units
BadText(v) == v.body = 0 \/ v.body > MessageMax

\* C21 as stated: constructing a record trims the message and fails with a
\* validation error when the message is empty after trimming or longer than
\* 1000 units; an emission of such a message fails with that error, writes
\* to no sink and stores no row.
C21_MessageValidated ==
    /\ resp.op = "LogEntryCreate" =>
          /\ BadText(resp.message) => resp.raised = "ValidationError"
          /\ (~BadText(resp.message) /\ TextLen(resp.message) <= MessageMax)
             => (resp.raised = None /\ resp.result = strip(resp.message))
    /\ (resp.op = "StructuredLogger.info" /\ BadText(resp.message)) =>
          /\ resp.raised = "ValidationError"
          /\ \A i \in DOMAIN resp.outcome : resp.outcome[i] # "write"
          /\ resp.stored = NoRow


\* C22 as stated: rendering the same record twice with the same formatter,
\* at different times or for two sinks of one dispatch, yields identical
\* text, the timestamp included.
C22_RenderPure ==
    resp.op = "render" =>
        \A i, j \in DOMAIN resp.rendered : resp.rendered[i] = resp.rendered[j]


\* C23: on one Logger object, after every call the logger's level and the
\* level of every attached handler equal self.level, the level of the most
\* recent set_level (or of the constructor); a set_level that raises leaves
\* the logger and its handlers as they were.
C23_LevelsFollowSetLevel ==
    [][1 \in DOMAIN objs' =>
          IF objs'[1].level = BasicFormat
          THEN loggers' = loggers
          ELSE /\ loggers'[TestName].level = objs'[1].level
               /\ \A i \in DOMAIN loggers'[TestName].handlers :
                      loggers'[TestName].handlers[i].level = objs'[1].level]_vars

\* Two handlers attached, the level changed afterwards, then a set_level
\* that raised
C23_Witness ==
    /\ 1 \in DOMAIN objs
    /\ objs[1].level = BasicFormat
    /\ resp.op = "Logger.set_level"
    /\ Len(loggers[TestName].handlers) = 2
    /\ loggers[TestName].level = LevelNo("ERROR")
    /\ \A i \in 1..2 : loggers[TestName].handlers[i].level = LevelNo("ERROR")


\* One call run alone against committed rows rws
Alone(call, rws) ==
    IF call.op = "update"
    THEN LET r == update(rws, call.id, now, call.patch, "none")
         IN  [rows |-> r.rows, raised |-> r.raised, row |-> r.result, ok |-> FALSE]
    ELSE LET r == delete(rws, call.id, "none")
         IN  [rows |-> r.rows, raised |-> r.raised, row |-> NoRow, ok |-> r.result]

\* What thread t got is what the lone call r gave
SameResult(t, r) ==
    /\ threads[t].raised = r.raised
    /\ threads[t].row = r.row
    /\ threads[t].ok = r.ok

\* C24 as stated: when the concurrent calls on one identity have returned,
\* the store and every call's result are those of the calls run one after
\* the other in some order, from the rows the first call found.
C24_Serialized ==
    (/\ impl = "logger_repository"
     /\ threads # <<>>
     /\ \A t \in DOMAIN threads : threads[t].pc = "done"
     /\ \A t, u \in DOMAIN threads : threads[t].call.id = threads[u].call.id)
    => \E a, b \in DOMAIN threads :
          /\ a # b
          /\ LET start == threads[CHOOSE t \in DOMAIN threads :
                                     threads[t].ticket = 0].before
                 first == Alone(threads[a].call, start)
                 second == Alone(threads[b].call, first.rows)
             IN  /\ rows = second.rows
                 /\ SameResult(a, first)
                 /\ SameResult(b, second)


\* C25: a LoggerConfigUpdate applied a second time right after the first
\* leaves config, the logger's level and its handlers as the first
\* application left them, and returns an equal LoggerConfigResponse.
C25_UpdateIdempotent ==
    (resp.op = "LoggerService.update_logger_config again" /\ resp.raised = None)
    => /\ config = resp.once.config
       /\ loggers[RouterName].level = resp.once.logger.level
       /\ loggers[RouterName].handlers = resp.once.logger.handlers
       /\ resp.result = resp.first

\* C25 witness: level and file given twice, the file handler attached
C25_Witness ==
    /\ resp.op = "LoggerService.update_logger_config again"
    /\ resp.raised = None
    /\ resp.log_level = "ERROR"
    /\ resp.log_file = "app.log"
    /\ resp.result.handlers_count = 2
    /\ resp.first.handlers_count = 2


\* C26: while constructions and update_logger_config calls succeed, the
\* logger has one console handler, and after it one file handler exactly
\* when config.log_file is a non-empty string; handlers_count of
\* get_logger_config is that number.
C26_HandlersFollowConfig ==
    LET hs == loggers[RouterName].handlers
        n == IF config.log_file \notin {None, ""} THEN 2 ELSE 1
    IN  /\ Len(hs) = n
        /\ hs[1].dest = "console"
        /\ n = 2 => hs[2].dest = "file"
        /\ (resp.op \in {"LoggerService.get_logger_config",
                         "LoggerService.update_logger_config"}
            => resp.result.handlers_count = n)

\* C26 witness: a service constructed again after a log file was configured
C26_Witness ==
    /\ resp.op = "LoggerService.__init__"
    /\ resp.raised = None
    /\ config.log_file = "app.log"
    /\ Len(loggers[RouterName].handlers) = 2


\* C27 as stated: an entry a POST /logs request created is returned by a
\* GET /logs/{entry_id} request for its id that follows it, and a GET /logs
\* request that follows it lists it.
C27_EntrySurvivesRequest ==
    [][(resp.op = "POST /logs" /\ now' = now)
       => /\ (resp'.op = "GET /logs/{entry_id}" /\ resp'.id = resp.id)
             => (resp'.status = 200 /\ resp'.result = resp.result)
          /\ (resp'.op = "GET /logs" /\ resp' # resp)
             => \E i \in DOMAIN log_entries' : log_entries'[i].id = resp.id]_vars


\* C28 as stated: no row holds an unserialized mapping, and after a create
\* or an update that supplies extra_data (absent, an empty mapping or a
\* non-empty one) the row's extra_data is null or a JSON string that
\* deserializes to the mapping supplied.
C28_ExtraDataSerialized ==
    [][/\ \A r \in rows' : r.extra_data.t \in {"None", "str"}
       /\ (resp'.op = "LogRepository.create" /\ resp'.raised = None)
          => LET new == Get(rows', resp'.result.id)
             IN  \/ new.extra_data = PyNone
                 \/ JsonLoads(new.extra_data) = resp'.draft.extra_data
       /\ (/\ resp'.op = "LogRepository.update"
           /\ Get(rows, resp'.id) # NoRow
           /\ "extra_data" \in resp'.patch.fields)
          => LET new == Get(rows', resp'.id)
             IN  \/ new.extra_data = PyNone
                 \/ JsonLoads(new.extra_data) = resp'.patch.extra_data]_vars


====
